---- MODULE Spec2Model ----
(***************************************************************************)
(* Model of the "smart angle" value classes of astroangles.py (degradval   *)
(* and its nine kinds) and of the coordinate pairs of stellarGeometry.py.  *)
(*                                                                         *)
(* Numbers.  A Python float is modelled as a fixed-point number: the       *)
(* integer n stands for n / One, with One = 720000, i.e. 1/200 of an arc   *)
(* second when the number is a count of degrees.  Every float operation of *)
(* the source that cannot be exact on this grid (math.degrees,             *)
(* math.radians, x/15, x/3600) rounds to the nearest grid point, as the    *)
(* float operation rounds to the nearest float.                            *)
(*                                                                         *)
(* Strings.  A Python str is a sequence of one-character strings.          *)
(***************************************************************************)
EXTENDS Integers, Sequences, FiniteSets, TLC

\* ------------------------------------------------------------------------
\* Fixed-point arithmetic
\* ------------------------------------------------------------------------

\* grid points per unit: 3600 arc seconds, each divided in 200
One == 3600 * 200

\* math.pi / 2 on the grid (1.5707958...)
HALFPI == 1130973

\* math.pi: HALFPI is math.pi/2 exactly, as it is for floats
PI == 2 * HALFPI

TWOPI == PI * 2

Abs(x) == IF x < 0 THEN -x ELSE x

Sign(x) == IF x < 0 THEN -1 ELSE 1

\* the element of a one-element set.  Only({e(x) : x \in {v}}) is e(v) with
\* v computed once and named x, as a local variable of the source is
Only(S) == CHOOSE x \in S : TRUE

\* a / b rounded to the nearest integer (halves away from zero), b > 0
RoundDiv(a, b) == Sign(a) * ((2 * Abs(a) + b) \div (2 * b))

\* one doubling step of the long multiplication below
MulDivStep(qr, a, bit, c) ==
    LET r2 == 2 * qr[2] + bit * a
    IN  <<2 * qr[1] + (r2 \div c), r2 % c>>

\* <<(a*b) div c, (a*b) mod c>> for 0 <= a < c and b >= 0, computed without
\* an intermediate product wider than 32 bits
RECURSIVE MulDivQR(_, _, _)
MulDivQR(a, b, c) ==
    IF b = 0 THEN <<0, 0>>
    ELSE MulDivStep(MulDivQR(a, b \div 2, c), a, b % 2, c)

\* a * b / c rounded to the nearest grid point, b >= 0, c > 0: the float
\* product a * (b / c)
MulDiv(a, b, c) ==
    LET m  == Abs(a)
        qr == MulDivQR(m % c, b, c)
        q  == (m \div c) * b + qr[1] + (IF 2 * qr[2] >= c THEN 1 ELSE 0)
    IN  Sign(a) * q

\* math.degrees(x) = x * (180 / pi)
Degrees(x) == MulDiv(x, 180 * One, PI)

\* math.radians(x) = x * (pi / 180)
Radians(x) == MulDiv(x, PI, 180 * One)

\* Python's round(): a / b to the nearest integer, halves to the even one
RoundHalfEven(a, b) ==
    LET q == a \div b
        r == a % b
    IN  IF 2 * r < b THEN q
        ELSE IF 2 * r > b THEN q + 1
        ELSE IF q % 2 = 0 THEN q ELSE q + 1

\* <<(a*b) div c, (a*b) mod c>> for 0 <= a < c <= One and b >= 0, ten bits
\* of b at a time
RECURSIVE MulDivQR1024(_, _, _)
MulDivQR1024(a, b, c) ==
    IF b = 0 THEN <<0, 0>>
    ELSE Only({ <<1024 * qr[1] + ((1024 * qr[2] + (b % 1024) * a) \div c),
                  (1024 * qr[2] + (b % 1024) * a) % c>>
                : qr \in {MulDivQR1024(a, b \div 1024, c)} })

\* a * b / c rounded to the nearest grid point, b >= 0, 0 < c <= One
MulDivOne(a, b, c) ==
    Only({ Sign(a) * ((Abs(a) \div c) * b + qr[1] + (IF 2 * qr[2] >= c THEN 1 ELSE 0))
           : qr \in {MulDivQR1024(Abs(a) % c, b, c)} })

\* the float product a * b
Mul(a, b) == Sign(b) * MulDivOne(a, Abs(b), One)

\* the float quotient a / b for |a| <= |b| <= 1, b /= 0
Div(a, b) == Sign(b) * MulDivOne(a, One, Abs(b))

\* the last power of the series of the sine
SinOrder == 13

\* the terms x^n/n! - x^(n+2)/(n+2)! + ... of the sine from the term t on,
\* x2 being x * x
RECURSIVE SinTerms(_, _, _)
SinTerms(x2, t, n) ==
    IF n > SinOrder \/ t = 0 THEN 0
    ELSE Only({ t + SinTerms(x2, t2, n + 2)
                : t2 \in {-RoundDiv(Mul(t, x2), (n + 1) * (n + 2))} })

\* x brought into [-pi/2, pi/2] without a change of its sine
SinArg(x) ==
    Only({ IF m > PI + HALFPI THEN m - TWOPI
           ELSE IF m > HALFPI THEN PI - m
           ELSE m
           : m \in {x % TWOPI} })

\* math.sin(x), to the nearest grid point or the one next to it
Sin(x) == Only({ Only({ SinTerms(x2, a, 1) : x2 \in {Mul(a, a)} }) : a \in {SinArg(x)} })

\* math.cos(x)
Cos(x) == Sin(x + HALFPI)

\* the angles tried at once when an angle is searched for
Fan == 16

Min(S) == CHOOSE x \in S : \A y \in S : x <= y

Max(S) == CHOOSE x \in S : \A y \in S : x >= y

\* the part of [lo, hi] that holds the angle searched for, below being the
\* angles lo + step, lo + 2 * step, ... that lie under it
Narrowed(lo, hi, step, below) ==
    IF below = {} THEN <<lo, lo + step>>
    ELSE IF Max(below) = lo + Fan * step THEN <<Max(below), hi>>
    ELSE <<Max(below), Max(below) + step>>

\* the least angle in [lo, hi], 0 <= lo <= hi <= pi/2, whose sine reaches y
RECURSIVE AsinBetween(_, _, _)
AsinBetween(y, lo, hi) ==
    IF hi - lo <= Fan THEN
        Only({ IF S = {} THEN hi ELSE Min(S) : S \in {{t \in lo..hi : Sin(t) >= y}} })
    ELSE Only({ AsinBetween(y, n[1], n[2])
                : n \in {Narrowed(lo, hi, (hi - lo) \div Fan,
                            {c \in {lo + i * ((hi - lo) \div Fan) : i \in 1..Fan}
                                : Sin(c) < y})} })

\* math.asin(y) for -1 <= y <= 1: asin(1) is pi/2 and asin(-y) is -asin(y)
Asin(y) ==
    IF y < 0 THEN -(IF -y >= One THEN HALFPI ELSE AsinBetween(-y, 0, HALFPI))
    ELSE IF y >= One THEN HALFPI ELSE AsinBetween(y, 0, HALFPI)

\* math.acos(y) for -1 <= y <= 1
Acos(y) == HALFPI - Asin(y)

\* <<(a*b) div One, (a*b) mod One>> for a >= 0 and b >= 0: the product in full
MulQR(a, b) ==
    Only({ <<(a \div One) * b + qr[1], qr[2]>> : qr \in {MulDivQR1024(a % One, b, One)} })

\* -1, 0 or 1 as a * b is negative, zero or positive
ProdSign(a, b) ==
    IF a = 0 \/ b = 0 THEN 0 ELSE IF (a < 0) = (b < 0) THEN 1 ELSE -1

\* p < q for two products in full
QRLess(p, q) == p[1] < q[1] \/ (p[1] = q[1] /\ p[2] < q[2])

\* a * b < c * d, exactly
ProdLess(a, b, c, d) ==
    IF ProdSign(a, b) /= ProdSign(c, d) THEN ProdSign(a, b) < ProdSign(c, d)
    ELSE IF ProdSign(a, b) = 0 THEN FALSE
    ELSE IF ProdSign(a, b) = 1
         THEN QRLess(MulQR(Abs(a), Abs(b)), MulQR(Abs(c), Abs(d)))
         ELSE QRLess(MulQR(Abs(c), Abs(d)), MulQR(Abs(a), Abs(b)))

\* cx * sin(t) <= cy * cos(t): t is not above the angle whose tangent is
\* cy / cx, cx > 0
AtanReached(cy, cx, t) == ~ProdLess(cy, Cos(t), cx, Sin(t))

\* the greatest angle t in [lo, hi] that is not above the angle whose
\* tangent is cy / cx, cx > 0
RECURSIVE AtanBetween(_, _, _, _)
AtanBetween(cy, cx, lo, hi) ==
    IF hi - lo <= Fan THEN
        Only({ IF S = {} THEN lo ELSE Max(S)
               : S \in {{t \in lo..hi : AtanReached(cy, cx, t)}} })
    ELSE Only({ AtanBetween(cy, cx, n[1], n[2])
                : n \in {Narrowed(lo, hi, (hi - lo) \div Fan,
                            {c \in {lo + i * ((hi - lo) \div Fan) : i \in 1..Fan}
                                : AtanReached(cy, cx, c)})} })

\* math.atan(cy / cx) for cx /= 0
Atan(cy, cx) ==
    IF cx > 0 THEN AtanBetween(cy, cx, -HALFPI, HALFPI)
    ELSE AtanBetween(-cy, -cx, -HALFPI, HALFPI)

\* ------------------------------------------------------------------------
\* Strings
\* ------------------------------------------------------------------------

Digits == <<"0", "1", "2", "3", "4", "5", "6", "7", "8", "9">>

IsDigit(c) == \E i \in 1..10 : Digits[i] = c

DigitVal(c) == (CHOOSE i \in 1..10 : Digits[i] = c) - 1

\* the positions of character c in s
Positions(s, c) == {i \in 1..Len(s) : s[i] = c}

\* len(s.split(c)) for a one-character separator c
SplitLen(s, c) == Cardinality(Positions(s, c)) + 1

\* s.split(c)[k], k counted from 1
SplitPart(s, c, k) ==
    LET ps   == Positions(s, c)
        from == IF k = 1 THEN 1
                ELSE 1 + CHOOSE i \in ps : Cardinality({j \in ps : j < i}) = k - 2
        to   == IF k = Cardinality(ps) + 1 THEN Len(s)
                ELSE (CHOOSE i \in ps : Cardinality({j \in ps : j < i}) = k - 1) - 1
    IN  SubSeq(s, from, to)

\* s.strip(): the white space of the model's alphabet is the blank and the
\* tab
Strip(s) ==
    LET nb == {i \in 1..Len(s) : s[i] \notin {" ", "\t"}}
    IN  IF nb = {} THEN <<>>
        ELSE SubSeq(s, CHOOSE i \in nb : \A j \in nb : i <= j,
                       CHOOSE i \in nb : \A j \in nb : i >= j)

\* s.endswith(t)
EndsWith(s, t) == Len(s) >= Len(t) /\ SubSeq(s, Len(s) - Len(t) + 1, Len(s)) = t

\* s.startswith(t)
StartsWith(s, t) == Len(s) >= Len(t) /\ SubSeq(s, 1, Len(t)) = t

AllDigits(s) == Len(s) > 0 /\ \A i \in 1..Len(s) : IsDigit(s[i])

\* the value of a non-empty digit string
RECURSIVE DigitsToInt(_)
DigitsToInt(s) ==
    IF Len(s) = 0 THEN 0
    ELSE 10 * DigitsToInt(SubSeq(s, 1, Len(s) - 1)) + DigitVal(s[Len(s)])

RECURSIVE Pow10(_)
Pow10(k) == IF k = 0 THEN 1 ELSE 10 * Pow10(k - 1)

\* the value, on the grid, of the digits after a decimal point
RECURSIVE FracToFix(_, _)
FracToFix(s, k) ==
    IF Len(s) = 0 THEN 0
    ELSE RoundDiv(DigitVal(s[1]) * One, Pow10(k)) + FracToFix(Tail(s), k + 1)

\* a string without its leading sign character, and the sign it carried
Unsigned(s) ==
    IF StartsWith(s, <<"-">>) THEN [sgn |-> -1, body |-> Tail(s)]
    ELSE IF StartsWith(s, <<"+">>) THEN [sgn |-> 1, body |-> Tail(s)]
    ELSE [sgn |-> 1, body |-> s]

\* int(s): optional blanks, optional sign, decimal digits.  The outcome is
\* [ok, v]; ok = FALSE stands for the ValueError int() raises.
ParseInt(s) ==
    Only({ IF AllDigits(u.body) THEN [ok |-> TRUE, v |-> u.sgn * DigitsToInt(u.body)]
           ELSE [ok |-> FALSE, v |-> 0]
           : u \in {Unsigned(Strip(s))} })

\* float(s) for decimal literals: optional blanks, optional sign, digits with
\* an optional point ("12", "12.", "12.5", ".5").  The outcome is [ok, v] with
\* v on the grid; ok = FALSE stands for the ValueError float() raises.
\* (Exponents, "inf", "nan" and "_" are not in the alphabet of the inputs.)
ParseFloat(s) ==
    Only({ Only({ IF /\ p.np <= 2
                     /\ Len(p.ip) + Len(p.fp) > 0
                     /\ \A i \in 1..Len(p.ip) : IsDigit(p.ip[i])
                     /\ \A i \in 1..Len(p.fp) : IsDigit(p.fp[i])
                  THEN [ok |-> TRUE,
                        v  |-> u.sgn * (DigitsToInt(p.ip) * One + FracToFix(p.fp, 1))]
                  ELSE [ok |-> FALSE, v |-> 0]
                  : p \in {[np |-> SplitLen(u.body, "."),
                            ip |-> IF SplitLen(u.body, ".") = 1 THEN u.body
                                   ELSE SplitPart(u.body, ".", 1),
                            fp |-> IF SplitLen(u.body, ".") = 2
                                   THEN SplitPart(u.body, ".", 2) ELSE <<>>]} })
           : u \in {Unsigned(Strip(s))} })

\* str(n) for an int n >= 0
RECURSIVE IntStr(_)
IntStr(n) ==
    IF n < 10 THEN <<Digits[n + 1]>>
    ELSE IntStr(n \div 10) \o <<Digits[(n % 10) + 1]>>

\* s filled on the left with the character c up to the width w
RECURSIVE PadLeft(_, _, _)
PadLeft(s, w, c) == IF Len(s) >= w THEN s ELSE PadLeft(<<c>> \o s, w, c)

\* '{:d}'.format(n)
FmtD(n) == IF n < 0 THEN <<"-">> \o IntStr(-n) ELSE IntStr(n)

\* '{:3d}'.format(n)
Fmt3d(n) == PadLeft(FmtD(n), 3, " ")

\* '{:02d}'.format(n)
Fmt02d(n) ==
    IF n < 0 THEN <<"-">> \o PadLeft(IntStr(-n), 1, "0")
    ELSE PadLeft(IntStr(n), 2, "0")

\* ------------------------------------------------------------------------
\* The kinds (the subclasses of degradval)
\* ------------------------------------------------------------------------

Kinds == {"latVal", "lonVal", "altVal", "azVal", "raVal", "decVal",
          "motorVal", "moveVal", "hourVal"}

Units == {"d", "r", "h"}

\* an argument that is none of 'd', 'r', 'h' may be passed as a unit
UnitArgs == Units \cup {"x"}

\* valConstraints(utype) of each class: <<offset, cyclic>>
valConstraints(kind, utype) ==
    IF kind \in {"latVal", "altVal", "decVal"} THEN
        CASE utype = "d" -> <<90 * One, 180 * One>>
          [] utype = "r" -> <<HALFPI, PI>>
          [] utype = "h" -> <<6 * One, 12 * One>>
    ELSE IF kind \in {"lonVal", "azVal"} THEN
        CASE utype = "d" -> <<180 * One, 360 * One>>
          [] utype = "r" -> <<PI, TWOPI>>
          [] utype = "h" -> <<12 * One, 24 * One>>
    ELSE
        CASE utype = "d" -> <<0, 360 * One>>
          [] utype = "r" -> <<0, TWOPI>>
          [] utype = "h" -> <<0, 24 * One>>

\* the class attribute trails: the letters that set the sign of a string
trails(kind) ==
    IF kind = "latVal" THEN <<<<"n", 1>>, <<"N", 1>>, <<"s", -1>>, <<"S", -1>>>>
    ELSE IF kind = "lonVal" THEN <<<<"e", 1>>, <<"E", 1>>, <<"w", -1>>, <<"W", -1>>>>
    ELSE <<>>

\* _constrain that leaves the offset added
ConstrainKeepsOffset(kind, newval, utype) ==
    IF kind = "moveVal" THEN
        LET max  == CASE utype = "d" -> 360 * One
                      [] utype = "r" -> TWOPI
                      [] utype = "h" -> 24 * One
            cval == Abs(newval) % max
        IN  IF newval < 0 THEN -cval ELSE cval
    ELSE
        LET oc == valConstraints(kind, utype)
        IN  (newval + oc[1]) % oc[2]

\* _constrain without the override of moveVal
ConstrainNoOverride(kind, newval, utype) ==
    LET oc == valConstraints(kind, utype)
    IN  ((newval + oc[1]) % oc[2]) - oc[1]

\* degradval._constrain, and moveVal._constrain for the free rotation
Constrain(kind, newval, utype) ==
    IF kind = "moveVal" THEN
        LET max  == CASE utype = "d" -> 360 * One
                      [] utype = "r" -> TWOPI
                      [] utype = "h" -> 24 * One
            cval == Abs(newval) % max
        IN  IF newval < 0 THEN -cval ELSE cval
    ELSE
        LET oc == valConstraints(kind, utype)
        IN  ((newval + oc[1]) % oc[2]) - oc[1]

\* ------------------------------------------------------------------------
\* degradval._cleanval
\* ------------------------------------------------------------------------

\* The values handed to a constructor or setter:
\*   ty = "float": the float n (on the grid)
\*   ty = "int":   the int n
\*   ty = "str":   the string s
\*   ty = "obj":   a degradval of class k whose deg reads n
NoStr == <<>>

FloatArg(n) == [ty |-> "float", n |-> n, s |-> NoStr, k |-> ""]

IntArg(i) == [ty |-> "int", n |-> i, s |-> NoStr, k |-> ""]

StrArg(s) == [ty |-> "str", n |-> 0, s |-> s, k |-> ""]

ObjArg(k, d) == [ty |-> "obj", n |-> d, s |-> NoStr, k |-> k]

\* the unit of a string when the marker 'r' is not looked for
StrUnitNoRadians(s, units) ==
    IF SplitLen(s, "d") = 2 THEN "d"
    ELSE IF SplitLen(s, "h") = 2 THEN "h"
    ELSE units

\* lines 218-228: the unit a string names, or the default
StrUnit(s, units) ==
    IF SplitLen(s, "d") = 2 THEN "d"
    ELSE IF SplitLen(s, "r") = 2 THEN "r"
    ELSE IF SplitLen(s, "h") = 2 THEN "h"
    ELSE units

\* lines 218-230: the string without the unit marker that was found.  usplit
\* is the last split made: of 'd' when it matched, else of 'r', else of 'h'
StrUnmarked(s) ==
    LET c == IF SplitLen(s, "d") = 2 THEN "d"
             ELSE IF SplitLen(s, "r") = 2 THEN "r"
             ELSE "h"
    IN  IF SplitLen(s, c) = 2 THEN SplitPart(s, c, 1) \o SplitPart(s, c, 2)
        ELSE s

\* lines 232-238: the first trailing sign string that ends tstr, 0 if none
TrailMatch(kind, tstr) ==
    LET tr == trails(kind)
        ms == {i \in 1..Len(tr) : EndsWith(tstr, <<tr[i][1]>>)}
    IN  IF ms = {} THEN 0 ELSE CHOOSE i \in ms : \A j \in ms : i <= j

\* the magnitude when endsign multiplies the degrees field alone
StrMagnitudeSignOnDegrees(tstr, endsign) ==
    IF SplitLen(tstr, ":") = 3 THEN
        Only({ IF c[1].ok /\ c[2].ok /\ c[3].ok
               THEN [ok |-> TRUE,
                     v  |-> c[1].v * One * endsign + RoundDiv(c[2].v * One, 60)
                             + RoundDiv(c[3].v, 3600)]
               ELSE [ok |-> FALSE, v |-> 0]
               : c \in {<<ParseInt(SplitPart(tstr, ":", 1)),
                          ParseInt(SplitPart(tstr, ":", 2)),
                          ParseFloat(SplitPart(tstr, ":", 3))>>} })
    ELSE
        Only({ IF f.ok THEN [ok |-> TRUE, v |-> f.v * endsign]
               ELSE [ok |-> FALSE, v |-> 0]
               : f \in {ParseFloat(tstr)} })

\* lines 244-248: the magnitude of a string without its signs, times endsign:
\* [ok, v]; ok = FALSE is the ValueError of int() or float()
StrMagnitude(tstr, endsign) ==
    IF SplitLen(tstr, ":") = 3 THEN
        Only({ IF c[1].ok /\ c[2].ok /\ c[3].ok
               THEN [ok |-> TRUE,
                     v  |-> (c[1].v * One + RoundDiv(c[2].v * One, 60)
                             + RoundDiv(c[3].v, 3600)) * endsign]
               ELSE [ok |-> FALSE, v |-> 0]
               : c \in {<<ParseInt(SplitPart(tstr, ":", 1)),
                          ParseInt(SplitPart(tstr, ":", 2)),
                          ParseFloat(SplitPart(tstr, ":", 3))>>} })
    ELSE
        Only({ IF f.ok THEN [ok |-> TRUE, v |-> f.v * endsign]
               ELSE [ok |-> FALSE, v |-> 0]
               : f \in {ParseFloat(tstr)} })

\* endsign = -1 in the place of endsign *= -1: a leading '-' makes the
\* number negative whatever the trailing sign string gave
StrSignedMinusWins(tstr, endsign) ==
    Only({ StrMagnitude(u.body, IF u.sgn = -1 THEN -1 ELSE endsign) : u \in {Unsigned(tstr)} })

\* lines 239-243: a leading '+' or '-' is taken off, '-' negates endsign
StrSigned(tstr, endsign) ==
    Only({ StrMagnitude(u.body, endsign * u.sgn) : u \in {Unsigned(tstr)} })

\* lines 232-238: a trailing sign string is taken off and gives endsign
StrTrailed(kind, tstr) ==
    Only({ IF m = 0 THEN StrSigned(tstr, 1)
           ELSE StrSigned(SubSeq(tstr, 1, Len(tstr) - 1), trails(kind)[m][2])
           : m \in {TrailMatch(kind, tstr)} })

\* lines 231-248: the number a string stands for
StrNumber(kind, val) ==
    Only({ StrTrailed(kind, tstr) : tstr \in {Strip(val)} })

\* _cleanval(val, units): [exc, v, utype].  exc is "" when a value is
\* returned, else the exception raised: ValueError for a string that does
\* not parse, AttributeError for an object of another class (it has no
\* strip()).
cleanval(kind, val, units) ==
    IF val.ty = "obj" /\ val.k = kind THEN
        [exc |-> "", v |-> Constrain(kind, val.n, "d"), utype |-> "d"]
    ELSE
        LET utype0 == IF units \in {"d", "r", "h"} THEN units ELSE "d"
        IN  CASE val.ty = "float" ->
                    [exc |-> "", v |-> Constrain(kind, val.n, utype0), utype |-> utype0]
              [] val.ty = "int" ->
                    [exc |-> "", v |-> Constrain(kind, val.n * One, utype0), utype |-> utype0]
              [] val.ty = "str" ->
                    Only({ IF num.ok
                           THEN [exc |-> "", v |-> Constrain(kind, num.v, utype),
                                 utype |-> utype]
                           ELSE [exc |-> "ValueError", v |-> 0, utype |-> utype]
                           : num \in {StrNumber(kind, StrUnmarked(val.s))},
                             utype \in {StrUnit(val.s, utype0)} })
              [] val.ty = "obj" ->
                    [exc |-> "AttributeError", v |-> 0, utype |-> utype0]

\* ------------------------------------------------------------------------
\* A degradval object: its fields, properties and setters
\* ------------------------------------------------------------------------

\* the Python value None of a cached field; a cached number n is <<n>>
None == <<>>

Some(n) == <<n>>

\* The fields of an object while a call runs: d is _dval, r is _rval; nacc
\* and nchg count the calls of _notifyAccess and of _notifyChange the call
\* has made.  A call yields [o, exc] or, for a getter, [o, val].

\* lines 67-71 of __init__: a new object
NewObj == [d |-> None, r |-> None, nacc |-> 0, nchg |-> 0]

\* _notifyAccess: every read watcher is called
notifyAccess(o) == [o EXCEPT !.nacc = @ + 1]

\* _notifyChange: every change watcher is called
notifyChange(o) == [o EXCEPT !.nchg = @ + 1]

\* the property deg
deg(o) ==
    Only({ IF o1.d = None THEN
               IF o1.r = None THEN [o |-> o1, val |-> None]
               ELSE Only({ [o |-> [o1 EXCEPT !.d = Some(d)], val |-> Some(d)]
                           : d \in {Degrees(o1.r[1])} })
           ELSE [o |-> o1, val |-> o1.d]
           : o1 \in {notifyAccess(o)} })

\* the property rad
rad(o) ==
    Only({ IF o1.r = None THEN
               IF o1.d = None THEN [o |-> o1, val |-> None]
               ELSE Only({ [o |-> [o1 EXCEPT !.r = Some(r)], val |-> Some(r)]
                           : r \in {Radians(o1.d[1])} })
           ELSE [o |-> o1, val |-> o1.r]
           : o1 \in {notifyAccess(o)} })

\* the property hour: self.deg / 15, None when that raises
hour(o) ==
    Only({ IF g.val = None THEN [o |-> g.o, val |-> None]
           ELSE [o |-> g.o, val |-> Some(RoundDiv(g.val[1], 15))]
           : g \in {deg(notifyAccess(o))} })

\* a setter of deg that keeps the cached radians
degSetterKeepsRval(kind, o, dval) ==
    Only({ IF c.exc /= "" THEN [o |-> o, exc |-> c.exc]
           ELSE IF c.utype /= "d" THEN [o |-> o, exc |-> "ValueError"]
           ELSE Only({ IF Some(c.v) /= g.val
                        THEN [o |-> notifyChange([g.o EXCEPT !.d = Some(c.v)]), exc |-> ""]
                        ELSE [o |-> notifyAccess(g.o), exc |-> ""]
                        : g \in {deg(o)} })
           : c \in {cleanval(kind, dval, "d")} })

\* a setter of deg that does not look at the unit of what it was given
degSetterAnyUnit(kind, o, dval) ==
    Only({ IF c.exc /= "" THEN [o |-> o, exc |-> c.exc]
           ELSE Only({ IF Some(c.v) /= g.val
                        THEN [o |-> notifyChange([g.o EXCEPT !.d = Some(c.v), !.r = None]), exc |-> ""]
                        ELSE [o |-> notifyAccess(g.o), exc |-> ""]
                        : g \in {deg(o)} })
           : c \in {cleanval(kind, dval, "d")} })

\* the setter of deg
degSetter(kind, o, dval) ==
    Only({ IF c.exc /= "" THEN [o |-> o, exc |-> c.exc]
           ELSE IF c.utype /= "d" THEN [o |-> o, exc |-> "ValueError"]
           ELSE Only({ IF Some(c.v) /= g.val
                        THEN [o |-> notifyChange([g.o EXCEPT !.d = Some(c.v), !.r = None]), exc |-> ""]
                        ELSE [o |-> notifyAccess(g.o), exc |-> ""]
                        : g \in {deg(o)} })
           : c \in {cleanval(kind, dval, "d")} })

\* the setter of rad
radSetter(kind, o, rval) ==
    Only({ IF c.exc /= "" THEN [o |-> o, exc |-> c.exc]
           ELSE IF c.utype /= "r" THEN [o |-> o, exc |-> "ValueError"]
           ELSE Only({ IF Some(c.v) /= g.val
                        THEN [o |-> notifyChange([g.o EXCEPT !.r = Some(c.v), !.d = None]), exc |-> ""]
                        ELSE [o |-> notifyAccess(g.o), exc |-> ""]
                        : g \in {rad(o)} })
           : c \in {cleanval(kind, rval, "r")} })

\* the setter of hour: it compares with the field _dval, not with deg
hourSetter(kind, o, hval) ==
    Only({ IF c.exc /= "" THEN [o |-> o, exc |-> c.exc]
           ELSE IF c.utype /= "h" THEN [o |-> o, exc |-> "ValueError"]
           ELSE Only({ IF o.d /= Some(newval)
                       THEN [o |-> notifyChange([o EXCEPT !.d = Some(newval), !.r = None]),
                             exc |-> ""]
                       ELSE [o |-> notifyAccess(o), exc |-> ""]
                       : newval \in {c.v * 15} })
           : c \in {cleanval(kind, hval, "h")} })

\* a set that clears the two fields, as __init__ does, before it cleans
setClearsFirst(kind, o, v, vas) ==
    Only({ IF c.exc /= "" THEN [o |-> [o EXCEPT !.d = None, !.r = None], exc |-> c.exc]
           ELSE IF c.utype = "r" THEN radSetter(kind, o, FloatArg(c.v))
           ELSE IF c.utype = "d" THEN degSetter(kind, o, FloatArg(c.v))
           ELSE degSetter(kind, o, FloatArg(c.v * 15))
           : c \in {cleanval(kind, v, vas)} })

\* set(v, vas): the value is cleaned here and once more by the setter
set(kind, o, v, vas) ==
    Only({ IF c.exc /= "" THEN [o |-> o, exc |-> c.exc]
           ELSE IF c.utype = "r" THEN radSetter(kind, o, FloatArg(c.v))
           ELSE IF c.utype = "d" THEN degSetter(kind, o, FloatArg(c.v))
           ELSE degSetter(kind, o, FloatArg(c.v * 15))
           : c \in {cleanval(kind, v, vas)} })

\* __init__(v, vas)
init(kind, v, vas) ==
    Only({ IF c.exc /= "" THEN [o |-> NewObj, exc |-> c.exc]
           ELSE set(kind, NewObj, v, vas)
           : c \in {cleanval(kind, v, vas)} })

\* ------------------------------------------------------------------------
\* State
\* ------------------------------------------------------------------------

VARIABLES
    kind,    \* the class of the object, "" while there is none
    dval,    \* its field _dval
    rval,    \* its field _rval
    exc,     \* the exception the last call raised, "" when it returned
    ret,     \* the value the last getter returned
    nacc,    \* the calls of _notifyAccess the last call made
    nchg,    \* the calls of _notifyChange the last call made
    call,    \* the last call: [name, arg, vas]
    pre,     \* the fields before the last call: [d, r]
    wrote,   \* the last write that returned: [unit, v], v as normalized
    fin,     \* the arguments of a function that is called on its own
    fout     \* what that function returned or raised

objvars == <<kind, dval, rval, exc, ret, nacc, nchg, call, pre, wrote>>

fnvars == <<fin, fout>>

vars == <<kind, dval, rval, exc, ret, nacc, nchg, call, pre, wrote, fin, fout>>

\* ------------------------------------------------------------------------
\* Inputs
\* ------------------------------------------------------------------------

\* the floats handed to a value: -725, -0.5, 0, 6, 90, 95, 185, 360 and pi
FloatInputs == {-725 * One, -(One \div 2), 0, 6 * One, 90 * One, 95 * One,
                185 * One, 360 * One, PI}

IntInputs == {725}

\* the strings handed to a value
StrInputs == {
    <<"1", "h">>,
    <<".", "5", "r">>,
    <<"1", "0", "d">>,
    <<"-", "0", ":", "3", "0", ":", "0", "0">>,
    <<"1", "0", ":", "3", "0", ":", "4", "5", "S">>,
    <<"1", "x">> }

\* the objects handed to a value of class k: one of its class, one of another
ObjInputs(k) == {ObjArg(k, 45 * One), ObjArg(IF k = "raVal" THEN "latVal" ELSE "raVal", 45 * One)}

Inputs(k) ==
    {FloatArg(n) : n \in FloatInputs} \cup {IntArg(i) : i \in IntInputs}
        \cup {StrArg(t) : t \in StrInputs} \cup ObjInputs(k)

NoCall == [name |-> "", arg |-> FloatArg(0), vas |-> ""]

NoWrite == [unit |-> "", v |-> 0]

\* the unit and normalized value a write of arg through unit u hands over
Written(k, arg, u) ==
    Only({ [unit |-> c.utype, v |-> c.v] : c \in {cleanval(k, arg, u)} })

\* ------------------------------------------------------------------------
\* Actions on one object
\* ------------------------------------------------------------------------

\* no function is called on its own
NoInput == [op |-> ""]

NoOutput == [exc |-> "pending"]

FnIdle == fin = NoInput /\ fout = NoOutput

ObjInit ==
    /\ kind = "" /\ dval = None /\ rval = None
    /\ exc = "" /\ ret = None /\ nacc = 0 /\ nchg = 0
    /\ call = NoCall /\ pre = [d |-> None, r |-> None] /\ wrote = NoWrite

CurObj == [d |-> dval, r |-> rval, nacc |-> 0, nchg |-> 0]

\* the outcome res of a call that writes: the fields change only as res.o says
Outcome(res, name, arg, vas, w) ==
    /\ dval' = res.o.d /\ rval' = res.o.r
    /\ nacc' = res.o.nacc /\ nchg' = res.o.nchg
    /\ exc' = res.exc /\ ret' = None
    /\ call' = [name |-> name, arg |-> arg, vas |-> vas]
    /\ pre' = [d |-> dval, r |-> rval]
    /\ wrote' = IF res.exc = "" THEN w ELSE wrote
    /\ UNCHANGED fnvars

\* x = K(v, vas): when __init__ raises, no object is made
Construct(k, v, vas) ==
    /\ kind = "" /\ call = NoCall
    /\ \E res \in {init(k, v, vas)} :
           /\ kind' = IF res.exc = "" THEN k ELSE ""
           /\ Outcome(res, "init", v, vas, Written(k, v, vas))

\* x.set(v, vas)
Set(v, vas) ==
    /\ kind /= "" /\ call = NoCall
    /\ \E res \in {set(kind, CurObj, v, vas)} : Outcome(res, "set", v, vas, Written(kind, v, vas))
    /\ UNCHANGED kind

\* x.deg = v
SetDeg(v) ==
    /\ kind /= "" /\ call = NoCall
    /\ \E res \in {degSetter(kind, CurObj, v)} : Outcome(res, "deg=", v, "d", Written(kind, v, "d"))
    /\ UNCHANGED kind

\* x.rad = v
SetRad(v) ==
    /\ kind /= "" /\ call = NoCall
    /\ \E res \in {radSetter(kind, CurObj, v)} : Outcome(res, "rad=", v, "r", Written(kind, v, "r"))
    /\ UNCHANGED kind

\* x.hour = v
SetHour(v) ==
    /\ kind /= "" /\ call = NoCall
    /\ \E res \in {hourSetter(kind, CurObj, v)} : Outcome(res, "hour=", v, "h", Written(kind, v, "h"))
    /\ UNCHANGED kind

\* the outcome g of a getter
Got(g, name) ==
    /\ dval' = g.o.d /\ rval' = g.o.r
    /\ nacc' = g.o.nacc /\ nchg' = g.o.nchg
    /\ exc' = "" /\ ret' = g.val
    /\ call' = [name |-> name, arg |-> FloatArg(0), vas |-> ""]
    /\ pre' = [d |-> dval, r |-> rval]
    /\ UNCHANGED <<kind, wrote>>
    /\ UNCHANGED fnvars

\* x.deg
GetDeg == kind /= "" /\ call = NoCall /\ \E g \in {deg(CurObj)} : Got(g, "deg")

\* x.rad
GetRad == kind /= "" /\ call = NoCall /\ \E g \in {rad(CurObj)} : Got(g, "rad")

\* x.hour
GetHour == kind /= "" /\ call = NoCall /\ \E g \in {hour(CurObj)} : Got(g, "hour")

\* the call has returned (or raised) and its caller goes on: the outcome of
\* the call is dropped, the object stays as it is
Return ==
    /\ call /= NoCall
    /\ call' = NoCall /\ pre' = [d |-> None, r |-> None]
    /\ exc' = "" /\ ret' = None /\ nacc' = 0 /\ nchg' = 0
    /\ UNCHANGED <<kind, dval, rval, wrote>>
    /\ UNCHANGED fnvars

Init == ObjInit /\ FnIdle

Next ==
    \/ \E k \in Kinds : \E v \in Inputs(k) : \E vas \in UnitArgs : Construct(k, v, vas)
    \/ \E v \in Inputs(kind) : \E vas \in UnitArgs : Set(v, vas)
    \/ \E v \in Inputs(kind) : SetDeg(v)
    \/ \E v \in Inputs(kind) : SetRad(v)
    \/ \E v \in Inputs(kind) : SetHour(v)
    \/ GetDeg
    \/ GetRad
    \/ GetHour
    \/ Return

Spec == Init /\ [][Next]_vars

\* ------------------------------------------------------------------------
\* Properties of one object
\* ------------------------------------------------------------------------

Setters == {"deg=", "rad=", "hour="}

Writers == {"init", "set", "deg=", "rad=", "hour="}

\* what x.deg reads in the current state, and what it read before the call
DegNow == deg(CurObj).val

DegBefore == deg([d |-> pre.d, r |-> pre.r, nacc |-> 0, nchg |-> 0]).val

RadBefore == rad([d |-> pre.d, r |-> pre.r, nacc |-> 0, nchg |-> 0]).val

C2_CacheCoherent ==
    kind /= "" =>
        /\ ~(dval = None /\ rval = None)
        /\ (dval /= None /\ rval /= None) =>
                (rval[1] = Radians(dval[1]) \/ dval[1] = Degrees(rval[1]))
        /\ wrote.unit = "d" => deg(CurObj).val = Some(wrote.v)
        /\ wrote.unit = "r" => rad(CurObj).val = Some(wrote.v)
        /\ wrote.unit = "h" => hour(CurObj).val = Some(wrote.v)

\* a write of degrees that changed the value while both fields were cached:
\* the cached radians are gone
C2_Witness ==
    /\ call.name = "deg=" /\ exc = "" /\ nchg = 1
    /\ pre.d /= None /\ pre.r /= None
    /\ rval = None /\ dval /= pre.d

\* the new value of the last setter call, in the unit of the setter, is the
\* value the object held before the call
C3_SameAsHeld ==
    LET c == cleanval(kind, call.arg, call.vas)
    IN  /\ c.exc = ""
        /\ \/ call.name = "deg=" /\ Some(c.v) = DegBefore
           \/ call.name = "rad=" /\ Some(c.v) = RadBefore
           \/ call.name = "hour=" /\ Some(c.v * 15) = DegBefore

\* C3: a setter call that hands over the value the object already holds, in
\* whichever field that value is cached, calls no change watcher and calls
\* the read watchers.
C3_NoChangeWhenSame ==
    (call.name \in Setters /\ exc = "" /\ C3_SameAsHeld) => (nchg = 0 /\ nacc >= 1)

\* C4: a moveVal given the number v in unit u, by the constructor, set or a
\* setter, holds +(|v| mod period) when v >= 0 and -(|v| mod period) when
\* v < 0, the period being 360, 2 pi or 24: moveVal(-725) holds -5 degrees and
\* moveVal(725) holds 5.
C4_MoveSignedMagnitude ==
    (kind = "moveVal" /\ call.name \in Writers /\ exc = ""
        /\ call.arg.ty \in {"float", "int"}) =>
        LET v   == IF call.arg.ty = "int" THEN call.arg.n * One ELSE call.arg.n
            u   == IF call.vas \in Units THEN call.vas ELSE "d"
            per == IF u = "d" THEN 360 * One ELSE IF u = "r" THEN 2 * PI ELSE 24 * One
            mag == (IF v < 0 THEN -v ELSE v) % per
            exp == IF v >= 0 THEN mag ELSE -mag
        IN  /\ u = "d" => deg(CurObj).val = Some(exp)
            /\ u = "r" => rad(CurObj).val = Some(exp)
            /\ u = "h" => deg(CurObj).val = Some(15 * exp)
            /\ (u = "d" /\ v = -725 * One) => dval = Some(-5 * One)
            /\ (u = "d" /\ v = 725 * One) => dval = Some(5 * One)

\* moveVal(-725) holds -5 degrees
C4_Witness ==
    /\ kind = "moveVal" /\ call.name = "init" /\ call.vas = "d"
    /\ call.arg = FloatArg(-725 * One) /\ dval = Some(-5 * One)

\* the unit marker of a string: the one of 'd', 'r', 'h' that occurs exactly
\* once, 'd' before 'r' before 'h'; "" when there is none
MarkerOf(s) ==
    IF Cardinality({i \in DOMAIN s : s[i] = "d"}) = 1 THEN "d"
    ELSE IF Cardinality({i \in DOMAIN s : s[i] = "r"}) = 1 THEN "r"
    ELSE IF Cardinality({i \in DOMAIN s : s[i] = "h"}) = 1 THEN "h"
    ELSE ""

\* C7: a deg, rad or hour setter given a string whose unit marker names
\* another unit than the setter's raises ValueError and stores nothing.
C7_SetterUnitMismatch ==
    (call.name \in Setters /\ call.arg.ty = "str"
        /\ MarkerOf(call.arg.s) \notin {"", call.vas}) =>
        (exc = "ValueError" /\ dval = pre.d /\ rval = pre.r /\ nchg = 0)

\* the deg setter was given "1h" and raised
C7_Witness ==
    /\ call.name = "deg=" /\ call.arg = StrArg(<<"1", "h">>)
    /\ exc = "ValueError" /\ dval = pre.d /\ rval = pre.r

\* ------------------------------------------------------------------------
\* _cleanval called on its own with a string
\* ------------------------------------------------------------------------

\* the leading sign of a string
SignParts == {<<>>, <<"-">>, <<"+">>}

\* the fields of a d:m:s string with the numbers they stand for; the seconds
\* are a float
DegParts == {[txt |-> <<"0">>, v |-> 0], [txt |-> <<"1", "0">>, v |-> 10],
             [txt |-> <<"9", "5">>, v |-> 95]}

MinParts == {[txt |-> <<"3", "0">>, v |-> 30]}

SecParts == {[txt |-> <<"0", "0">>, v |-> 0], [txt |-> <<"4", "5">>, v |-> 45 * One]}

\* the number of a string: a d:m:s triple, a float, or a text that is neither
NumParts ==
    {[form |-> "dms", txt |-> d.txt \o <<":">> \o m.txt \o <<":">> \o c.txt,
      v |-> d.v * One + (m.v * One) \div 60 + c.v \div 3600]
        : d \in DegParts, m \in MinParts, c \in SecParts}
    \cup {[form |-> "float", txt |-> <<"1", "0", ".", "5">>, v |-> 10 * One + One \div 2],
          [form |-> "float", txt |-> <<".", "5">>, v |-> One \div 2],
          [form |-> "float", txt |-> <<"7", "2", "5">>, v |-> 725 * One]}
    \cup {[form |-> "bad", txt |-> <<"1", ":", "3", "0">>, v |-> 0],
          [form |-> "bad", txt |-> <<"1", ":", "2", ":", "3", ":", "4">>, v |-> 0],
          [form |-> "bad", txt |-> <<"1", ".", "5", ":", "0", ":", "0">>, v |-> 0],
          [form |-> "bad", txt |-> <<>>, v |-> 0]}

\* the trailing letter of a string
LetterParts == {<<>>, <<"S">>, <<"W">>}

\* unit markers before the sign, after the number and after the letter
MarkParts ==
    {[pre |-> <<>>, mid |-> <<>>, post |-> <<>>]}
    \cup {[pre |-> <<c>>, mid |-> <<>>, post |-> <<>>] : c \in Units}
    \cup {[pre |-> <<>>, mid |-> <<c>>, post |-> <<>>] : c \in Units}
    \cup {[pre |-> <<>>, mid |-> <<>>, post |-> <<" ", c>>] : c \in Units}
    \cup {[pre |-> <<>>, mid |-> <<>>, post |-> <<"d", "d">>],
          [pre |-> <<"d">>, mid |-> <<>>, post |-> <<"r">>],
          [pre |-> <<"r">>, mid |-> <<"r">>, post |-> <<"h">>],
          [pre |-> <<"h">>, mid |-> <<"d">>, post |-> <<"d">>]}

ParseInputs ==
    {[op |-> "parse", k |-> k, u |-> u, sgn |-> g, num |-> n, letter |-> l,
      s |-> m.pre \o g \o n.txt \o m.mid \o l \o m.post]
        : k \in Kinds, u \in UnitArgs, g \in SignParts, n \in NumParts,
          l \in LetterParts, m \in MarkParts}

ParseInit == ObjInit /\ fin \in ParseInputs /\ fout = NoOutput

\* self._cleanval(s, u): fout is [exc, v, utype], utype the local variable
Parse ==
    /\ fin.op = "parse" /\ fout = NoOutput
    /\ fout' = cleanval(fin.k, StrArg(fin.s), fin.u)
    /\ UNCHANGED fin
    /\ UNCHANGED objvars

ParseNext == Parse

ParseSpec == ParseInit /\ [][ParseNext]_vars

Parsed == fin.op = "parse" /\ fout /= NoOutput

\* the unit markers of a string, in their order
MarkChars(s) == SelectSeq(s, LAMBDA c : c \in Units)

\* the sign the letter l gives a string of kind k, 0 when l is no letter of k
LetterSign(k, l) ==
    IF l = <<>> THEN 1
    ELSE IF \E i \in DOMAIN trails(k) : <<trails(k)[i][1]>> = l
         THEN trails(k)[CHOOSE i \in DOMAIN trails(k) : <<trails(k)[i][1]>> = l][2]
         ELSE 0

\* the number the parts of the string stand for: the sign and the letter
\* multiply the whole of it
PartsValue == (IF fin.sgn = <<"-">> THEN -1 ELSE 1) * LetterSign(fin.k, fin.letter) * fin.num.v

\* the parts of the string are a number of the kind once one marker is gone
PartsClean ==
    /\ fin.num.form /= "bad" /\ LetterSign(fin.k, fin.letter) /= 0
    /\ Len(MarkChars(fin.s)) <= 1

\* C5: the unit of a string is 'd' when it holds exactly one 'd', else 'r'
\* when it holds exactly one 'r', else 'h' when it holds exactly one 'h',
\* else the default unit of the caller; the marker that was matched is taken
\* out before the number is parsed, so that a string that is a number of the
\* kind apart from its one marker gives that number in the marker's unit.
C5_UnitMarker ==
    (Parsed /\ fin.u \in Units) =>
        /\ fout.utype = (IF MarkerOf(fin.s) = "" THEN fin.u ELSE MarkerOf(fin.s))
        /\ (PartsClean /\ MarkerOf(fin.s) /= "") =>
                /\ fout.exc = ""
                /\ fout.v = Constrain(fin.k, PartsValue, MarkerOf(fin.s))

\* a string with one 'r' and the default unit 'd' was parsed as radians
C5_Witness ==
    /\ Parsed /\ fin.u = "d" /\ MarkerOf(fin.s) = "r" /\ PartsClean
    /\ fout.exc = "" /\ fout.utype = "r"
    /\ fout.v = Constrain(fin.k, PartsValue, "r")

\* C6: a string with two ':' stands for deg + min/60 + sec/3600, and a
\* leading '-' or a negative trailing letter negates the whole sum, also
\* when the degrees are 0; any other string is parsed as one float (and
\* raises ValueError when it is none); the result is normalized in the unit
\* that was resolved.  latVal('10:30:45S') is -10.5125 and '-0:30:00' is -0.5.
C6_SexagesimalSum ==
    Parsed =>
        /\ PartsClean => (fout.exc = ""
                            /\ fout.v = Constrain(fin.k, PartsValue, fout.utype))
        /\ ~PartsClean => fout.exc = "ValueError"
        /\ (fin.k = "latVal" /\ fin.s = <<"1", "0", ":", "3", "0", ":", "4", "5", "S">>
                /\ fin.u = "d") => fout.v = -(10 * One + (41 * One) \div 80)
        /\ (fin.s = <<"-", "0", ":", "3", "0", ":", "0", "0">> /\ fin.u = "d"
                /\ fin.k /= "raVal" /\ fin.k /= "motorVal" /\ fin.k /= "hourVal")
                => fout.v = -(One \div 2)

\* '-0:30:00' was parsed as a declination and gave -0.5 degrees
C6_Witness ==
    /\ Parsed /\ fin.k = "decVal" /\ fin.u = "d"
    /\ fin.s = <<"-", "0", ":", "3", "0", ":", "0", "0">>
    /\ fout.exc = "" /\ fout.v = -(One \div 2)

\* ------------------------------------------------------------------------
\* __format__ in its multi number mode
\* ------------------------------------------------------------------------

\* the class attribute defaultLabel
defaultLabel(k) ==
    CASE k = "latVal"   -> <<"l", "a", "t", " ">>
      [] k = "lonVal"   -> <<"l", "o", "n", " ">>
      [] k = "altVal"   -> <<"a", "l", "t", " ">>
      [] k = "azVal"    -> <<"a", "z", " ">>
      [] k = "raVal"    -> <<"R", "A", " ">>
      [] k = "decVal"   -> <<"D", "E", "C", " ">>
      [] k = "motorVal" -> <<"m", "o", "t", "o", "r", " ">>
      [] k = "moveVal"  -> <<"r", "o", "t", "a", "t", "e", " ">>
      [] k = "hourVal"  -> <<"h", "o", "u", "r", " ">>

\* the static method trailsign of each class
trailsign(k, val) ==
    CASE k = "latVal" -> IF val >= 0 THEN <<"N">> ELSE <<"S">>
      [] k = "lonVal" -> IF val >= 0 THEN <<"E">> ELSE <<"W">>
      [] k = "altVal" -> IF val >= 0 THEN <<"u", "p">> ELSE <<"d", "n">>
      [] k = "azVal"  -> IF val >= 0 THEN <<"c", "w">> ELSE <<"c", "c", "w">>
      [] k = "decVal" -> IF val >= 0 THEN <<"+", "v", "e">> ELSE <<"-", "v", "e">>
      [] OTHER        -> <<>>

\* defaultMultiFormat.format(**p):
\*   latVal, lonVal  '{lab}{abs:d}:{min:02d}:{sec:02d}.{hund:02d} {schar}'
\*   the others      '{lab}{signed:3d}:{min:02d}:{sec:02d}.{hund:02d}'
defaultMultiFormat(k, p) ==
    IF k \in {"latVal", "lonVal"} THEN
        p.lab \o FmtD(p.abs) \o <<":">> \o Fmt02d(p.min) \o <<":">> \o Fmt02d(p.sec)
            \o <<".">> \o Fmt02d(p.hund) \o <<" ">> \o p.schar
    ELSE
        p.lab \o Fmt3d(p.signed) \o <<":">> \o Fmt02d(p.min) \o <<":">> \o Fmt02d(p.sec)
            \o <<".">> \o Fmt02d(p.hund)

\* lines 319-333: the fields of the multi number mode for the value sval.
\* divmod(abs(sval), 1), divmod(rest, 1/60) and divmod(rest, 1/3600) are
\* exact on the grid.
formparms(k, sval) ==
    Only({ [abs    |-> a \div One,
            signed |-> (a \div One) * (IF sval >= 0 THEN 1 ELSE -1),
            min    |-> (a % One) \div (One \div 60),
            sec    |-> ((a % One) % (One \div 60)) \div (One \div 3600),
            hund   |-> RoundHalfEven((((a % One) % (One \div 60)) % (One \div 3600)) * 360000, One),
            schar  |-> trailsign(k, IF sval >= 0 THEN 1 ELSE -1),
            lab    |-> defaultLabel(k)]
           : a \in {Abs(sval)} })

\* format(o, src + 'x;'): the source value is read through its property and
\* formatted with the default template of the class: [o, text]
format(k, o, src) ==
    Only({ [o |-> g.o, text |-> defaultMultiFormat(k, formparms(k, g.val[1]))]
           : g \in {IF src = "d" THEN deg(o) ELSE IF src = "r" THEN rad(o) ELSE hour(o)} })

\* the values an object is made of before it is formatted, in degrees:
\* -85.5, -0.5, 0, 10.5125, 45 and 100.25
FormatValues == {-(85 * One + One \div 2), -(One \div 2), 0, 10 * One + (41 * One) \div 80,
                 45 * One, 100 * One + One \div 4}

FormatInputs ==
    {[op |-> "format", k |-> k, v |-> v, src |-> u]
        : k \in Kinds, v \in FormatValues, u \in Units}

FormatInit == ObjInit /\ fin \in FormatInputs /\ fout = NoOutput

\* the value of an object in the unit u
ValueIn(o, u) ==
    Only({ g.val[1]
           : g \in {IF u = "d" THEN deg(o) ELSE IF u = "r" THEN rad(o) ELSE hour(o)} })

\* x = K(v); t = format(x, src + 'x;'); y = K(t, src)
FormatParse ==
    /\ fin.op = "format" /\ fout = NoOutput
    /\ \E x \in {init(fin.k, FloatArg(fin.v), "d")} :
       \E f \in {format(fin.k, x.o, fin.src)} :
       \E y \in {init(fin.k, StrArg(f.text), fin.src)} :
            fout' = [text |-> f.text,
                     held |-> ValueIn(x.o, fin.src),
                     exc  |-> y.exc,
                     back |-> IF y.exc = "" THEN ValueIn(y.o, fin.src) ELSE 0]
    /\ UNCHANGED fin
    /\ UNCHANGED objvars

FormatNext == FormatParse

FormatSpec == FormatInit /\ [][FormatNext]_vars

\* C8: the text of a value in the multi number mode, given back to the
\* constructor of the same class in the same unit, makes an object that
\* holds the value again, to one hundredth of a second.
C8_FormatRoundTrip ==
    (fin.op = "format" /\ fout /= NoOutput) =>
        (fout.exc = "" /\ Abs(fout.back - fout.held) <= One \div 360000)

\* ------------------------------------------------------------------------
\* One value handed over in degrees, in radians and in hours
\* ------------------------------------------------------------------------

\* whole degrees on and off the ends of the ranges
UnitDegrees == {-990, -180, -90, 0, 45, 90, 180, 270, 725}

\* the floats next to them on the grid
UnitValues == {d * One + e : d \in UnitDegrees, e \in {-1, 0, 1}}

UnitInputs == {[op |-> "units", k |-> k, v |-> v] : k \in Kinds, v \in UnitValues}

UnitInit == ObjInit /\ fin \in UnitInputs /\ fout = NoOutput

\* a = K(v, 'd'); b = K(math.radians(v), 'r'); c = K(v / 15, 'h');
\* e = K(a.rad, 'r'); the degrees of each are read
UnitsOf ==
    /\ fin.op = "units" /\ fout = NoOutput
    /\ \E a \in {init(fin.k, FloatArg(fin.v), "d")} :
       \E b \in {init(fin.k, FloatArg(Radians(fin.v)), "r")} :
       \E c \in {init(fin.k, FloatArg(RoundDiv(fin.v, 15)), "h")} :
       \E e \in {init(fin.k, FloatArg(ValueIn(a.o, "r")), "r")} :
            fout' = [d  |-> ValueIn(a.o, "d"), r |-> ValueIn(b.o, "d"),
                     h  |-> ValueIn(c.o, "d"), rt |-> ValueIn(e.o, "d")]
    /\ UNCHANGED fin
    /\ UNCHANGED objvars

UnitNext == UnitsOf

UnitSpec == UnitInit /\ [][UnitNext]_vars

\* what one conversion between degrees and radians can lose on the grid
ConvTol == (180 * One) \div PI + 1

\* C9: a value handed over in degrees, in radians and in hours makes objects
\* that hold the same degrees, and so does the object made of the radians
\* read from the first, up to the rounding of the conversions.
C9_UnitIndependent ==
    (fin.op = "units" /\ fout /= NoOutput) =>
        /\ Abs(fout.r - fout.d) <= ConvTol
        /\ Abs(fout.h - fout.d) <= ConvTol
        /\ Abs(fout.rt - fout.d) <= ConvTol

\* ------------------------------------------------------------------------
\* stellarGeometry.py: mapCoords and the coordinate pairs
\* ------------------------------------------------------------------------

\* lines 289-296 of mapCoords: the way taken when acos raised ValueError
mapCoordsAtan(xt, cx, cy) ==
    IF cx = 0 THEN [exc |-> "ZeroDivisionError", v1 |-> 0, v2 |-> 0, way |-> "atan"]
    ELSE Only({ [exc |-> "", v1 |-> xt, v2 |-> IF cx < 0 THEN cz + PI ELSE cz,
                 way |-> "atan"]
                : cz \in {Atan(cy, cx)} })

\* the acos return without the reflection of line 284
mapCoordsAcosNoReflect(sinx, siny, cosx, cosy, sinz, xt) ==
    Only({ IF Abs(num) <= Abs(den) THEN
               Only({ [exc |-> "", v1 |-> xt, v2 |-> yt, way |-> "acos"]
                      : yt \in {Acos(IF den = 0 THEN 0 ELSE Div(num, den))} })
           ELSE Only({ mapCoordsAtan(xt, num, cy)
                       : cy \in {-Mul(Mul(cosx, cosy), sinz)} })
           : num \in {sinx - Mul(siny, Sin(xt))},
             den \in {Mul(cosy, Cos(xt))} })

\* lines 281-296 of mapCoords, xt = asin(...) being known.  num / den is in
\* the domain of acos when |num| <= |den|.  cosy and cos(xt) are never 0.0
\* as floats (math.cos(math.pi / 2) is 6.1e-17), so a den that is 0 on the
\* grid is a float too small to be told from 0 and line 282 does not divide
\* by zero: with a num that is not 0 the quotient is out of the domain and
\* the atan branch is taken; with a num that is 0 the quotient is 0.0, as in
\* mapCoords(math.radians(45), math.pi / 2, 0.0).
mapCoordsAcos(sinx, siny, cosx, cosy, sinz, xt) ==
    Only({ IF Abs(num) <= Abs(den) THEN
               Only({ [exc |-> "", v1 |-> xt,
                       v2 |-> IF sinz > 0 THEN TWOPI - yt ELSE yt, way |-> "acos"]
                      : yt \in {Acos(IF den = 0 THEN 0 ELSE Div(num, den))} })
           ELSE Only({ mapCoordsAtan(xt, num, cy)
                       : cy \in {-Mul(Mul(cosx, cosy), sinz)} })
           : num \in {sinx - Mul(siny, Sin(xt))},
             den \in {Mul(cosy, Cos(xt))} })

\* mapCoords(x, y, z): [exc, v1, v2, way], way naming the return that was
\* taken ("acos" line 285, "atan" line 296) or "asin" when line 280 raised.
\* asin is outside the try and raises ValueError when its argument has left
\* [-1, 1].
mapCoords(x, y, z) ==
    Only({ Only({ IF Abs(a) > One THEN [exc |-> "ValueError", v1 |-> 0, v2 |-> 0, way |-> "asin"]
                  ELSE Only({ mapCoordsAcos(t.sinx, t.siny, t.cosx, t.cosy, t.sinz, xt)
                              : xt \in {Asin(a)} })
                  : a \in {Mul(t.sinx, t.siny) + Mul(Mul(t.cosx, t.cosy), t.cosz)} })
           : t \in {[sinx |-> Sin(x), siny |-> Sin(y), cosx |-> Cos(x),
                     cosy |-> Cos(y), sinz |-> Sin(z), cosz |-> Cos(z)]} })

\* the subclasses of twoCoords
Frames == {"earthLoc", "observedCoord", "localEquatorial", "raDec", "motorPair"}

\* the class attribute initVarInfo: <<vn, vname, vclass>> of each component
initVarInfo(cls) ==
    CASE cls = "earthLoc"        -> <<<<"lat", "v1", "latVal">>, <<"lon", "v2", "lonVal">>>>
      [] cls = "observedCoord"   -> <<<<"alt", "v1", "altVal">>, <<"az", "v2", "azVal">>>>
      [] cls = "localEquatorial" -> <<<<"hour", "v1", "hourVal">>, <<"dec", "v2", "decVal">>>>
      [] cls = "raDec"           -> <<<<"ra", "v1", "raVal">>, <<"dec", "v2", "decVal">>>>
      [] cls = "motorPair"       -> <<<<"ramot", "v1", "motorVal">>, <<"decmot", "v2", "motorVal">>>>

\* a component of a pair: the degradval of class k with the fields of o
Comp(k, o) == [k |-> k, d |-> o.d, r |-> o.r]

\* c.rad and c.deg of a component (the cache they fill is not kept)
CompRad(c) == rad([d |-> c.d, r |-> c.r, nacc |-> 0, nchg |-> 0]).val[1]

CompDeg(c) == deg([d |-> c.d, r |-> c.r, nacc |-> 0, nchg |-> 0]).val[1]

\* vclass(v, vas) as a component: [exc, nv], nv = <<component>> or None
NewComp(k, v, vas) ==
    Only({ IF res.exc /= "" THEN [exc |-> res.exc, nv |-> None]
           ELSE [exc |-> "", nv |-> Some(Comp(k, res.o))]
           : res \in {init(k, v, vas)} })

\* lines 33-37: the component of info = <<vn, vname, vclass>> out of kwargs
KwComp(info, kwargs) ==
    IF info[2] \in DOMAIN kwargs THEN
        NewComp(info[3], kwargs[info[2]],
                IF (info[2] \o "as") \in DOMAIN kwargs THEN kwargs[info[2] \o "as"] ELSE "d")
    ELSE IF info[1] \in DOMAIN kwargs THEN
        NewComp(info[3], kwargs[info[1]],
                IF (info[1] \o "as") \in DOMAIN kwargs THEN kwargs[info[1] \o "as"] ELSE "d")
    ELSE [exc |-> "", nv |-> None]

\* The objects of a sources tuple:
\*   a degradval       [cls |-> its class, c1 |-> the value itself]
\*   a pair            [cls |-> its class, c1, c2 |-> its components]
\*   a sidereal clock  [cls |-> "sidereal", degrees |-> what .degrees reads]
\*   anything else     [cls |-> "float"]
\* the fields a class has not are NoComp and 0
NoComp == [k |-> "", d |-> None, r |-> None]

\* isinstance(anob, latVal): lonVal is a subclass of latVal
IsLatVal(anob) == anob.cls \in {"latVal", "lonVal"}

\* the pair of components a transform gives: [exc, c1, c2]
NewPair(a, b) ==
    IF a.exc /= "" THEN [exc |-> a.exc, c1 |-> None, c2 |-> None]
    ELSE IF b.exc /= "" THEN [exc |-> b.exc, c1 |-> None, c2 |-> None]
    ELSE [exc |-> "", c1 |-> a.nv, c2 |-> b.nv]

\* lines 119-131: what one object of sources sets in observedCoord.setupfrom,
\* st = [indec, inha, inlat], each None or <<radians>>
ObservedStep(st, anob) ==
    IF anob.cls = "localEquatorial" THEN
        [st EXCEPT !.indec = Some(CompRad(anob.c2)), !.inha = Some(CompRad(anob.c1))]
    ELSE IF IsLatVal(anob) THEN [st EXCEPT !.inlat = Some(CompRad(anob.c1))]
    ELSE IF anob.cls = "earthLoc" THEN [st EXCEPT !.inlat = Some(CompRad(anob.c1))]
    ELSE st

\* the loop breaking only at a latitude that comes after the partner pair
ObservedBreakLatitudeLast(st, anob) ==
    (IsLatVal(anob) \/ anob.cls = "earthLoc") /\ st.inha /= None /\ st.indec /= None

\* lines 122-131: the loop breaks after that object
ObservedBreak(st, anob) ==
    \/ anob.cls = "localEquatorial" /\ st.inlat /= None
    \/ (IsLatVal(anob) \/ anob.cls = "earthLoc") /\ st.inha /= None /\ st.indec /= None

\* lines 118-133: the loop from the i-th object on: found = FALSE when it
\* runs to its end
RECURSIVE ObservedScan(_, _, _)
ObservedScan(sources, i, st) ==
    IF i > Len(sources) THEN [found |-> FALSE, st |-> st]
    ELSE Only({ IF ObservedBreak(s1, sources[i]) THEN [found |-> TRUE, st |-> s1]
                ELSE ObservedScan(sources, i + 1, s1)
                : s1 \in {ObservedStep(st, sources[i])} })

\* observedCoord.setupfrom(sources): [exc, c1, c2]
observedSetupfrom(sources) ==
    Only({ IF ~sc.found THEN [exc |-> "KeyError", c1 |-> None, c2 |-> None]
           ELSE Only({ IF m.exc /= "" THEN [exc |-> m.exc, c1 |-> None, c2 |-> None]
                       ELSE NewPair(NewComp("altVal", FloatArg(m.v1), "r"),
                                    NewComp("azVal", FloatArg(m.v2), "r"))
                       : m \in {mapCoords(sc.st.indec[1], sc.st.inlat[1], sc.st.inha[1])} })
           : sc \in {ObservedScan(sources, 1,
                        [indec |-> None, inha |-> None, inlat |-> None])} })

\* lines 190-216: what one object of sources sets in
\* localEquatorial.setupfrom, st = [inalt, inaz, inlat, inra, indec, insrtdeg]
\* (inra and indec are components, the others numbers, in <<>>)
EquatorialStep(st, anob) ==
    IF anob.cls = "observedCoord" THEN
        [st EXCEPT !.inalt = Some(CompRad(anob.c1)), !.inaz = Some(CompRad(anob.c2))]
    ELSE IF IsLatVal(anob) THEN [st EXCEPT !.inlat = Some(CompRad(anob.c1))]
    ELSE IF anob.cls = "earthLoc" THEN [st EXCEPT !.inlat = Some(CompRad(anob.c1))]
    ELSE IF anob.cls = "raDec" THEN
        [st EXCEPT !.indec = Some(anob.c2), !.inra = Some(anob.c1)]
    ELSE IF anob.cls = "sidereal" THEN [st EXCEPT !.insrtdeg = Some(anob.degrees)]
    ELSE st

\* lines 193-216: the setup the loop breaks with after that object, "" when
\* it goes on
EquatorialBreak(st, anob) ==
    IF anob.cls = "observedCoord" THEN (IF st.inlat /= None THEN "altaz" ELSE "")
    ELSE IF IsLatVal(anob) \/ anob.cls = "earthLoc" THEN
        (IF st.inalt /= None /\ st.inaz /= None THEN "altaz" ELSE "")
    ELSE IF anob.cls = "raDec" THEN (IF st.insrtdeg /= None THEN "radec" ELSE "")
    ELSE IF anob.cls = "sidereal" THEN
        (IF st.indec /= None /\ st.inra /= None THEN "radec" ELSE "")
    ELSE ""

\* lines 189-218: the loop from the i-th object on
RECURSIVE EquatorialScan(_, _, _)
EquatorialScan(sources, i, st) ==
    IF i > Len(sources) THEN [found |-> "", st |-> st]
    ELSE Only({ IF EquatorialBreak(s1, sources[i]) /= ""
                THEN [found |-> EquatorialBreak(s1, sources[i]), st |-> s1]
                ELSE EquatorialScan(sources, i + 1, s1)
                : s1 \in {EquatorialStep(st, sources[i])} })

\* localEquatorial.setupfromaltaz(inalt, inlat, inaz): [exc, c1, c2]
setupfromaltaz(inalt, inlat, inaz) ==
    Only({ IF m.exc /= "" THEN [exc |-> m.exc, c1 |-> None, c2 |-> None]
           ELSE NewPair(NewComp("hourVal", FloatArg(m.v2), "r"),
                        NewComp("decVal", FloatArg(m.v1), "r"))
           : m \in {mapCoords(inalt, inlat, inaz)} })

\* the hour angle taken as right ascension less sidereal time
setupfromradecReversed(inra, indec, insrtdeg) ==
    NewPair(NewComp("hourVal", FloatArg(CompDeg(inra) - insrtdeg), "d"),
            NewComp("decVal", ObjArg(indec.k, CompDeg(indec)), "d"))

\* self.dec = indec in the place of self.dec = decVal(indec): the pair keeps
\* the component of the raDec it was derived from
setupfromradecKeepsDec(inra, indec, insrtdeg) ==
    NewPair(NewComp("hourVal", FloatArg(insrtdeg - CompDeg(inra)), "d"),
            [exc |-> "", nv |-> Some(indec)])

\* localEquatorial.setupfromradec(inra, indec, insrtdeg): [exc, c1, c2]
setupfromradec(inra, indec, insrtdeg) ==
    NewPair(NewComp("hourVal", FloatArg(insrtdeg - CompDeg(inra)), "d"),
            NewComp("decVal", ObjArg(indec.k, CompDeg(indec)), "d"))

\* localEquatorial.setupfrom(sources): [exc, c1, c2]
equatorialSetupfrom(sources) ==
    Only({ IF sc.found = "altaz"
           THEN setupfromaltaz(sc.st.inalt[1], sc.st.inlat[1], sc.st.inaz[1])
           ELSE IF sc.found = "radec"
           THEN setupfromradec(sc.st.inra[1], sc.st.indec[1], sc.st.insrtdeg[1])
           ELSE [exc |-> "KeyError", c1 |-> None, c2 |-> None]
           : sc \in {EquatorialScan(sources, 1,
                        [inalt |-> None, inaz |-> None, inlat |-> None,
                         inra |-> None, indec |-> None, insrtdeg |-> None])} })

\* self.setupfrom(sources) of the class cls, c1 and c2 being the components
\* the keywords gave: twoCoords.setupfrom does nothing
setupfrom(cls, c1, c2, sources) ==
    IF cls = "observedCoord" THEN observedSetupfrom(sources)
    ELSE IF cls = "localEquatorial" THEN equatorialSetupfrom(sources)
    ELSE [exc |-> "", c1 |-> c1, c2 |-> c2]

\* lines 40-43 of twoCoords.__init__, a and b being the components of the
\* keywords.  The message of the TypeError of line 43 names _v2from, which
\* is defined nowhere: building it raises NameError.
twoCoordsCheck(cls, a, b, kwargs) ==
    Only({ IF s.exc /= "" THEN [exc |-> s.exc, cls |-> cls, c1 |-> None, c2 |-> None]
           ELSE IF s.c1 = None \/ s.c2 = None
           THEN [exc |-> "NameError", cls |-> cls, c1 |-> None, c2 |-> None]
           ELSE [exc |-> "", cls |-> cls, c1 |-> s.c1, c2 |-> s.c2]
           : s \in {IF "sources" \in DOMAIN kwargs
                    THEN setupfrom(cls, a, b, kwargs["sources"])
                    ELSE [exc |-> "", c1 |-> a, c2 |-> b]} })

\* cls(**kwargs): [exc, cls, c1, c2]; c1 and c2 hold the components of the
\* pair that was made
twoCoordsInit(cls, kwargs) ==
    Only({ IF a.exc /= "" THEN [exc |-> a.exc, cls |-> cls, c1 |-> None, c2 |-> None]
           ELSE Only({ IF b.exc /= ""
                       THEN [exc |-> b.exc, cls |-> cls, c1 |-> None, c2 |-> None]
                       ELSE twoCoordsCheck(cls, a.nv, b.nv, kwargs)
                       : b \in {KwComp(initVarInfo(cls)[2], kwargs)} })
           : a \in {KwComp(initVarInfo(cls)[1], kwargs)} })

\* the keywords of no argument
EmptyKw == [key \in {} |-> 0]

\* the objects handed over in sources: a value of class k that was made of
\* v degrees, v in the range of k, and a pair that was made of two of them
SrcComp(k, v) == [k |-> k, d |-> Some(v), r |-> None]

SrcVal(k, v) == [cls |-> k, c1 |-> SrcComp(k, v), c2 |-> NoComp, degrees |-> 0]

SrcPair(cls, v1, v2) ==
    [cls |-> cls, c1 |-> SrcComp(initVarInfo(cls)[1][3], v1),
     c2 |-> SrcComp(initVarInfo(cls)[2][3], v2), degrees |-> 0]

SrcSidereal(v) == [cls |-> "sidereal", c1 |-> NoComp, c2 |-> NoComp, degrees |-> v]

SrcOther == [cls |-> "float", c1 |-> NoComp, c2 |-> NoComp, degrees |-> 0]

SrcLat == SrcVal("latVal", 50 * One)

SrcEarth == SrcPair("earthLoc", 50 * One, 0)

SrcEquatorial == SrcPair("localEquatorial", 30 * One, 20 * One)

SrcObserved == SrcPair("observedCoord", 30 * One, 40 * One)

SrcRaDec == SrcPair("raDec", 10 * One, 20 * One)

\* the tuples handed over as sources
SourceLists ==
    {<<>>, <<SrcOther, SrcLat>>,
     <<SrcEquatorial>>, <<SrcEquatorial, SrcLat>>, <<SrcLat, SrcEquatorial>>,
     <<SrcEarth, SrcOther, SrcEquatorial>>,
     <<SrcObserved>>, <<SrcObserved, SrcLat>>, <<SrcEarth, SrcObserved>>,
     <<SrcRaDec>>, <<SrcRaDec, SrcSidereal(100 * One)>>, <<SrcSidereal(100 * One), SrcRaDec>>}

\* the keywords of one component, info = <<vn, vname, vclass>>: none, its
\* name, v1 or v2, both, a string with its unit, a unit apart, no number
KwOne(info) ==
    {EmptyKw,
     info[1] :> FloatArg(30 * One),
     info[2] :> FloatArg(30 * One),
     (info[1] :> FloatArg(10 * One)) @@ (info[2] :> FloatArg(20 * One)),
     info[1] :> StrArg(<<"1", "r">>),
     (info[1] :> FloatArg(One)) @@ ((info[1] \o "as") :> "r"),
     info[1] :> StrArg(<<"a", "b", "c">>)}

KwTwo(info) ==
    {EmptyKw, info[1] :> FloatArg(20 * One), info[2] :> FloatArg(20 * One)}

KwSources == {EmptyKw} \cup {"sources" :> l : l \in SourceLists}

FrameInputs ==
    {[op |-> "frame", cls |-> cls, kw |-> a @@ b @@ c]
        : cls \in Frames, a \in UNION {KwOne(initVarInfo(f)[1]) : f \in Frames},
          b \in UNION {KwTwo(initVarInfo(f)[2]) : f \in Frames}, c \in KwSources}

FrameInit ==
    /\ ObjInit /\ fout = NoOutput
    /\ fin \in FrameInputs
    /\ \A key \in DOMAIN fin.kw :
            \/ key = "sources"
            \/ \E i \in 1..2 : key \in {initVarInfo(fin.cls)[i][1], initVarInfo(fin.cls)[i][2],
                                        initVarInfo(fin.cls)[i][1] \o "as"}

\* cls(**kwargs)
MakeFrame ==
    /\ fin.op = "frame" /\ fout = NoOutput
    /\ fout' = twoCoordsInit(fin.cls, fin.kw)
    /\ UNCHANGED fin
    /\ UNCHANGED objvars

FrameNext == MakeFrame

FrameSpec == FrameInit /\ [][FrameNext]_vars

\* the keywords name the i-th component of the class
Given(i) ==
    \/ initVarInfo(fin.cls)[i][1] \in DOMAIN fin.kw
    \/ initVarInfo(fin.cls)[i][2] \in DOMAIN fin.kw

\* the keywords leave a component out and no sources are there to set it
Missing ==
    /\ ~Given(1) \/ ~Given(2)
    /\ "sources" \notin DOMAIN fin.kw \/ fin.cls \notin {"observedCoord", "localEquatorial"}

\* C10: a pair is never made with a component missing: the constructor
\* returns only with both components set, and when the keywords and the
\* sources have left a component out it raises TypeError.
C10_NoPartialFrame ==
    (fin.op = "frame" /\ fout /= NoOutput) =>
        /\ fout.exc = "" => (fout.c1 /= None /\ fout.c2 /= None)
        /\ (Missing /\ fout.exc /= "ValueError") => fout.exc = "TypeError"

\* ------------------------------------------------------------------------
\* A pair derived from sources alone
\* ------------------------------------------------------------------------

SrcLon == SrcVal("lonVal", 10 * One)

SrcRaDecWest == SrcPair("raDec", 350 * One, -(20 * One))

\* the objects a sources tuple is made of
DeriveObjects ==
    {SrcOther, SrcLat, SrcLon, SrcEarth, SrcEquatorial, SrcObserved, SrcRaDec,
     SrcRaDecWest, SrcSidereal(100 * One), SrcSidereal(5 * One)}

\* the bound on the length of a sources tuple
MaxSources == 3

DeriveLists == UNION {[1..n -> DeriveObjects] : n \in 0..MaxSources}

DeriveInputs ==
    {[op |-> "derive", cls |-> cls, sources |-> l]
        : cls \in {"observedCoord", "localEquatorial"}, l \in DeriveLists}

DeriveInit == ObjInit /\ fin \in DeriveInputs /\ fout = NoOutput

\* the transform setupfrom ends with: "observed" for the mapCoords of
\* observedCoord.setupfrom, "altaz" for setupfromaltaz, "radec" for
\* setupfromradec, "" when the loop runs to its end
SetupOf(cls, sources) ==
    IF cls = "observedCoord" THEN
        (IF ObservedScan(sources, 1, [indec |-> None, inha |-> None, inlat |-> None]).found
         THEN "observed" ELSE "")
    ELSE EquatorialScan(sources, 1,
            [inalt |-> None, inaz |-> None, inlat |-> None,
             inra |-> None, indec |-> None, insrtdeg |-> None]).found

\* cls(sources=sources)
Derive ==
    /\ fin.op = "derive" /\ fout = NoOutput
    /\ \E f \in {twoCoordsInit(fin.cls, "sources" :> fin.sources)} :
       \E su \in {SetupOf(fin.cls, fin.sources)} :
            fout' = [exc |-> f.exc, c1 |-> f.c1, c2 |-> f.c2, setup |-> su]
    /\ UNCHANGED fin
    /\ UNCHANGED objvars

DeriveNext == Derive

DeriveSpec == DeriveInit /\ [][DeriveNext]_vars

Derived == fin.op = "derive" /\ fout /= NoOutput

\* an object of the class c is among the sources
Has(c) == \E i \in DOMAIN fin.sources : fin.sources[i].cls = c

HasLatitude == Has("latVal") \/ Has("earthLoc")

\* the sources hold a combination the class can be derived from
Combination ==
    IF fin.cls = "observedCoord" THEN Has("localEquatorial") /\ HasLatitude
    ELSE (Has("observedCoord") /\ HasLatitude) \/ (Has("raDec") /\ Has("sidereal"))

C12_LonNeverLatitude ==
    (Derived /\ ~Combination) => fout.exc = "KeyError"

\* the places of the objects of class c among the sources
Places(c) == {i \in DOMAIN fin.sources : fin.sources[i].cls = c}

\* the one object of class c among the sources
TheOne(c) == fin.sources[Only(Places(c))]

\* a localEquatorial is derived from sources that hold one raDec and one
\* sidereal clock and no observedCoord
FromRaDec ==
    /\ Derived /\ fin.cls = "localEquatorial"
    /\ Cardinality(Places("raDec")) = 1 /\ Cardinality(Places("sidereal")) = 1
    /\ ~Has("observedCoord")

TripHours == {0, 20, 45, 90, 135, 180, 200, 270, 300, 340}

TripDecs == {-60, -20, 0, 20, 45}

TripLats == {-52, -10, 30, 52}

TripInputs ==
    {[op |-> "trip", hour |-> h * One, dec |-> d * One, lat |-> l * One]
        : h \in TripHours, d \in TripDecs, l \in TripLats}

TripInit == ObjInit /\ fin \in TripInputs /\ fout = NoOutput

\* a pair that was made, as an object of a sources tuple
AsSource(f) == [cls |-> f.cls, c1 |-> f.c1[1], c2 |-> f.c2[1], degrees |-> 0]

\* the return mapCoords takes for the components a, b of a pair and the
\* latitude lat
WayOf(a, lat, b) == mapCoords(CompRad(a), CompRad(lat.c1), CompRad(b)).way

\* le = localEquatorial(hour=h, dec=d); lat = latVal(l);
\* oc = observedCoord(sources=(le, lat)); back = localEquatorial(sources=(oc, lat))
RoundTrip ==
    /\ fin.op = "trip" /\ fout = NoOutput
    /\ \E lat \in {SrcVal("latVal", fin.lat)} :
       \E le \in {twoCoordsInit("localEquatorial",
                      ("hour" :> FloatArg(fin.hour)) @@ ("dec" :> FloatArg(fin.dec)))} :
       \E oc \in {twoCoordsInit("observedCoord", "sources" :> <<AsSource(le), lat>>)} :
            IF oc.exc /= "" THEN fout' = [exc |-> oc.exc, hour |-> 0, dec |-> 0,
                                          out |-> "asin", back |-> ""]
            ELSE \E bk \in {twoCoordsInit("localEquatorial",
                                "sources" :> <<AsSource(oc), lat>>)} :
                    fout' = [exc  |-> bk.exc,
                             hour |-> IF bk.exc = "" THEN CompDeg(bk.c1[1]) ELSE 0,
                             dec  |-> IF bk.exc = "" THEN CompDeg(bk.c2[1]) ELSE 0,
                             out  |-> WayOf(le.c2[1], lat, le.c1[1]),
                             back |-> WayOf(oc.c1[1], lat, oc.c2[1])]
    /\ UNCHANGED fin
    /\ UNCHANGED objvars

TripNext == RoundTrip

TripSpec == TripInit /\ [][TripNext]_vars

\* what the trip may lose: 9 seconds of arc
TripTol == One \div 400

\* the distance of two angles in degrees round the circle
Apart(a, b) == Min({Abs(a - b), 360 * One - Abs(a - b)})

\* both transforms of the trip returned through acos, and the hour angle is
\* off the meridian, where acos is steep on the grid
TripRegular ==
    /\ fin.op = "trip" /\ fout /= NoOutput
    /\ fout.out = "acos" /\ fout.back = "acos"
    /\ fin.hour \notin {0, 180 * One}

\* C14: the observedCoord derived from a localEquatorial and a latitude,
\* derived back with the same latitude, gives the hour angle and the
\* declination it came from, within TripTol.
C14_RoundTrip ==
    TripRegular =>
        /\ fout.exc = ""
        /\ Apart(fout.hour, fin.hour) <= TripTol
        /\ Abs(fout.dec - fin.dec) <= TripTol

\* hour 20, dec 45 and latitude 52 degrees
C14_Witness ==
    /\ TripRegular /\ fout.exc = ""
    /\ fin.hour = 20 * One /\ fin.dec = 45 * One /\ fin.lat = 52 * One
    /\ Apart(fout.hour, 20 * One) <= TripTol /\ Abs(fout.dec - 45 * One) <= TripTol

\* ------------------------------------------------------------------------
\* mapCoords at and off its poles
\* ------------------------------------------------------------------------

\* the degrees of x and y, and of z
MapDegrees == {-90, -82, -60, -45, -12, -9, -8, 0, 8, 9, 12, 30, 45, 60, 82, 90}

MapTurns == {0, 20, 90, 180, 200, 270}

MapInputs ==
    {[op |-> "map", x |-> Radians(x * One), y |-> Radians(y * One), z |-> Radians(z * One)]
        : x \in MapDegrees, y \in MapDegrees, z \in MapTurns}

MapInit == ObjInit /\ fin \in MapInputs /\ fout = NoOutput

\* mapCoords(x, y, z)
Map ==
    /\ fin.op = "map" /\ fout = NoOutput
    /\ fout' = mapCoords(fin.x, fin.y, fin.z)
    /\ UNCHANGED fin
    /\ UNCHANGED objvars

MapNext == Map

MapSpec == MapInit /\ [][MapNext]_vars

\* C15: mapCoords lets no error out: where acos cannot be evaluated, or at
\* a pole, it returns (xt, yt) by line 285 or by the atan of line 296.
C15_DegenerateFallsBack ==
    (fin.op = "map" /\ fout /= NoOutput) =>
        (fout.exc = "" /\ fout.way \in {"acos", "atan"})

\* ------------------------------------------------------------------------
\* FromString
\* ------------------------------------------------------------------------

\* the words FromString compares typestr with, and the class of each
FromStringTags ==
    <<<<<<"l", "a", "t">>, "latVal">>, <<<<"l", "o", "n">>, "lonVal">>, <<<<"a", "l", "t">>, "altVal">>, <<<<"a", "z">>, "azVal">>,
      <<<<"R", "A">>, "raVal">>, <<<<"D", "E", "C">>, "decVal">>, <<<<"m", "o", "v", "e">>, "moveVal">>>>

TagWords == {FromStringTags[i][1] : i \in DOMAIN FromStringTags}

TagKind(w) == FromStringTags[CHOOSE i \in DOMAIN FromStringTags : FromStringTags[i][1] = w][2]

\* fs.split(' ', 1): the text before the first blank and, in <<>>, the text
\* after it; without a blank the list has one part
SplitOnce(fs) ==
    IF Positions(fs, " ") = {} THEN [head |-> fs, rest |-> None]
    ELSE Only({ [head |-> SubSeq(fs, 1, i - 1), rest |-> Some(SubSeq(fs, i + 1, Len(fs)))]
                : i \in {Min(Positions(fs, " "))} })

\* FromString(fs): [exc, kind, o]; parts[1] of a list of one part raises
\* IndexError
FromString(fs) ==
    Only({ Only({ IF typestr \notin TagWords
                  THEN [exc |-> "ValueError", kind |-> "", o |-> NewObj]
                  ELSE IF parts.rest = None
                  THEN [exc |-> "IndexError", kind |-> "", o |-> NewObj]
                  ELSE Only({ [exc |-> res.exc,
                               kind |-> IF res.exc = "" THEN TagKind(typestr) ELSE "",
                               o |-> res.o]
                              : res \in {init(TagKind(typestr), StrArg(parts.rest[1]), "d")} })
                  : typestr \in {Strip(parts.head)} })
           : parts \in {SplitOnce(fs)} })

\* the first words and what follows them
FromWords ==
    {<<"l", "a", "t">>, <<"l", "o", "n">>, <<"a", "l", "t">>, <<"a", "z">>,
     <<"R", "A">>, <<"D", "E", "C">>, <<"m", "o", "v", "e">>, <<"f", "o", "o">>,
     <<"L", "a", "t">>, <<"r", "a">>, <<"d", "e", "c">>, <<"m", "o", "t", "o", "r">>,
     <<"h", "o", "u", "r">>, <<>>, <<"l", "a", "t", "\t">>}

FromTails ==
    {<<>>, <<" ", "1", ".", "5">>, <<" ", "1", "0", ":", "3", "0", ":", "4", "5">>,
     <<" ", "-", "2", "0">>, <<" ", "a", "b", "c">>, <<" ">>,
     <<" ", "1", "r">>, <<" ", " ", "5">>}

FromInputs == {[op |-> "from", fs |-> w \o t] : w \in FromWords, t \in FromTails}

FromInit == ObjInit /\ fin \in FromInputs /\ fout = NoOutput

\* FromString(fs)
From ==
    /\ fin.op = "from" /\ fout = NoOutput
    /\ \E res \in {FromString(fin.fs)} :
            fout' = [exc |-> res.exc, kind |-> res.kind, d |-> res.o.d, r |-> res.o.r]
    /\ UNCHANGED fin
    /\ UNCHANGED objvars

FromNext == From

FromSpec == FromInit /\ [][FromNext]_vars

\* the first of the words of fs that blanks separate, and the rest of fs
FirstWord == SplitOnce(fin.fs).head

Remainder == IF SplitOnce(fin.fs).rest = None THEN <<>> ELSE SplitOnce(fin.fs).rest[1]

\* the object the class of the first word makes of the rest
Built == init(TagKind(FirstWord), StrArg(Remainder), "d")

\* C16: FromString raises ValueError and makes nothing when the first word
\* is none of lat, lon, alt, az, RA, DEC, move, and for each of these it
\* gives what the class of the word makes of the rest of the string.
C16_FromStringTags ==
    (fin.op = "from" /\ fout /= NoOutput) =>
        /\ FirstWord \notin TagWords => (fout.exc = "ValueError" /\ fout.kind = "")
        /\ FirstWord \in TagWords =>
                /\ fout.exc = Built.exc
                /\ fout.exc = "" =>
                        /\ fout.kind = TagKind(FirstWord)
                        /\ fout.d = Built.o.d /\ fout.r = Built.o.r

\* ------------------------------------------------------------------------
\* The fields __format__ hands to a template
\* ------------------------------------------------------------------------

\* the degrees an object is made of before it is formatted: those of
\* FormatValues and their opposites
FieldValues == FormatValues \cup {-v : v \in FormatValues}

FieldInputs ==
    {[op |-> "fields", k |-> k, v |-> v, src |-> u]
        : k \in Kinds, v \in FieldValues, u \in Units}

FieldInit == ObjInit /\ fin \in FieldInputs /\ fout = NoOutput

\* x = K(v); format(x, src + 'x;'): sval, the fields of lines 323-332 and the
\* text of the default template; sschar is the schar of line 316, which
\* format(x, src + 's;') hands over
Fields ==
    /\ fin.op = "fields" /\ fout = NoOutput
    /\ \E x \in {init(fin.k, FloatArg(fin.v), "d")} :
       \E sv \in {ValueIn(x.o, fin.src)} :
       \E p \in {formparms(fin.k, sv)} :
            fout' = [sval |-> sv, schar |-> p.schar, sschar |-> trailsign(fin.k, sv),
                     signed |-> p.signed, abs |-> p.abs,
                     text |-> defaultMultiFormat(fin.k, p)]
    /\ UNCHANGED fin
    /\ UNCHANGED objvars

FieldNext == Fields

FieldSpec == FieldInit /\ [][FieldNext]_vars

\* the sign glyphs: those of a value that is not negative, those of a
\* negative one
Glyphs(k) ==
    CASE k = "latVal" -> <<<<"N">>, <<"S">>>>
      [] k = "lonVal" -> <<<<"E">>, <<"W">>>>
      [] k = "altVal" -> <<<<"u", "p">>, <<"d", "n">>>>
      [] k = "azVal"  -> <<<<"c", "w">>, <<"c", "c", "w">>>>
      [] OTHER        -> <<<<>>, <<>>>>

\* C17: schar is N/S for a latitude, E/W for a longitude, up/dn for an
\* altitude, cw/ccw for an azimuth, the first for a value that is not
\* negative, and empty for a right ascension, a declination, a motor and
\* an hour angle, in the single and in the multi number mode.
C17_SignGlyph ==
    (fin.op = "fields" /\ fout /= NoOutput /\ fin.k /= "moveVal") =>
        /\ fout.schar = Glyphs(fin.k)[IF fout.sval >= 0 THEN 1 ELSE 2]
        /\ fout.sschar = fout.schar

\* C20: in the multi number mode the field signed of a negative value is
\* negative, and the text of the template '{lab}{signed:3d}:...' is not the
\* text of the opposite value.
C20_SignedCarriesSign ==
    (fin.op = "fields" /\ fout /= NoOutput /\ fout.sval < 0) =>
        /\ fout.signed < 0
        /\ fin.k \notin {"latVal", "lonVal"} =>
                fout.text /= defaultMultiFormat(fin.k, formparms(fin.k, -fout.sval))

\* ------------------------------------------------------------------------
\* str() of a pair
\* ------------------------------------------------------------------------

\* strFormat with the fields of earthLoc in the other order
strFormatSecondFirst(cls, t1, t2) ==
    CASE cls = "earthLoc"        -> <<"e", "a", "r", "t", "h", "L", "o", "c", ":", " ">> \o t2 \o <<",", " ">> \o t1
      [] cls = "observedCoord"   -> <<"o", "b", "s", "e", "r", "v", "e", "d", "C", "o", "o", "r", "d", ":", " ">> \o t1 \o <<",", " ">> \o t2
      [] cls = "localEquatorial" -> <<"l", "o", "c", "a", "l", "E", "q", "u", "a", "t", "o", "r", "i", "a", "l", ":", " ">> \o t1 \o <<",", " ">> \o t2
      [] cls = "raDec"           -> <<"r", "a", "D", "e", "c", ":", " ">> \o t1 \o <<",", " ">> \o t2
      [] cls = "motorPair"       -> <<"m", "o", "t", "o", "r", "P", "a", "i", "r", ":", " ", "R", "A", ":">> \o t1 \o <<",", " ", "D", "E", "C", ":">> \o t2

\* the class attribute strFormat, t1 and t2 being '{0:dx;}' and '{1:dx;}'
strFormat(cls, t1, t2) ==
    CASE cls = "earthLoc"        -> <<"e", "a", "r", "t", "h", "L", "o", "c", ":", " ">> \o t1 \o <<",", " ">> \o t2
      [] cls = "observedCoord"   -> <<"o", "b", "s", "e", "r", "v", "e", "d", "C", "o", "o", "r", "d", ":", " ">> \o t1 \o <<",", " ">> \o t2
      [] cls = "localEquatorial" -> <<"l", "o", "c", "a", "l", "E", "q", "u", "a", "t", "o", "r", "i", "a", "l", ":", " ">> \o t1 \o <<",", " ">> \o t2
      [] cls = "raDec"           -> <<"r", "a", "D", "e", "c", ":", " ">> \o t1 \o <<",", " ">> \o t2
      [] cls = "motorPair"       -> <<"m", "o", "t", "o", "r", "P", "a", "i", "r", ":", " ", "R", "A", ":">> \o t1 \o <<",", " ", "D", "E", "C", ":">> \o t2

\* format(c, 'dx;') of a component c of a pair
CompText(c) == format(c.k, [d |-> c.d, r |-> c.r, nacc |-> 0, nchg |-> 0], "d").text

\* twoCoords.__str__ of the pair f
str(f) == strFormat(f.cls, CompText(f.c1[1]), CompText(f.c2[1]))

\* the two numbers a pair is made of, in degrees: 53.068508 and -4.076269
\* (Snowdon) on the grid, and values on and off the ends of the ranges
StrFirsts ==
    {38209326, 0, -1, -(One \div 2), 10 * One + (41 * One) \div 80, -(85 * One + One \div 2),
     90 * One, -(90 * One)}

StrSeconds ==
    {-2934914, 0, -1, One \div 2, 100 * One + One \div 4, 180 * One, -(180 * One),
     -(10 * One + (41 * One) \div 80)}

StrPairs ==
    {[op |-> "str", cls |-> cls, v1 |-> a, v2 |-> b]
        : cls \in {"earthLoc"}, a \in StrFirsts, b \in StrSeconds}

StrInit == ObjInit /\ fin \in StrPairs /\ fout = NoOutput

\* f = cls(v1=a, v2=b); str(f)
Str ==
    /\ fin.op = "str" /\ fout = NoOutput
    /\ \E f \in {twoCoordsInit(fin.cls, ("v1" :> FloatArg(fin.v1)) @@ ("v2" :> FloatArg(fin.v2)))} :
            fout' = [exc |-> f.exc, text |-> str(f),
                     d1 |-> CompDeg(f.c1[1]), d2 |-> CompDeg(f.c2[1])]
    /\ UNCHANGED fin
    /\ UNCHANGED objvars

StrNext == Str

StrSpec == StrInit /\ [][StrNext]_vars

StrHead == <<"e", "a", "r", "t", "h", "L", "o", "c", ":", " ">>

\* the text of the first and of the second component in str()
StrFirst ==
    SubSeq(SplitPart(fout.text, ",", 1), Len(StrHead) + 1, Len(SplitPart(fout.text, ",", 1)))

StrSecond == Tail(SplitPart(fout.text, ",", 2))

\* t is label, degrees:minutes:seconds.hundredths of the value v, a blank
\* and glyph
Sexagesimal(t, label, glyph, v) ==
    /\ StartsWith(t, label) /\ EndsWith(t, <<" ">> \o glyph)
    /\ Len(t) > Len(label) + Len(glyph) + 1
    /\ LET body == SubSeq(t, Len(label) + 1, Len(t) - Len(glyph) - 1)
       IN  /\ SplitLen(body, ":") = 3
           /\ AllDigits(SplitPart(body, ":", 1))
           /\ DigitsToInt(SplitPart(body, ":", 1)) = Abs(v) \div One
           /\ AllDigits(SplitPart(body, ":", 2)) /\ Len(SplitPart(body, ":", 2)) = 2
           /\ SplitLen(SplitPart(body, ":", 3), ".") = 2
           /\ AllDigits(SplitPart(SplitPart(body, ":", 3), ".", 1))
           /\ Len(SplitPart(SplitPart(body, ":", 3), ".", 1)) = 2
           /\ AllDigits(SplitPart(SplitPart(body, ":", 3), ".", 2))

\* C18: str() of an earthLoc is the latitude and then the longitude, each as
\* degrees:minutes:seconds of the value held, the first from 'lat ' to N or
\* S, the second from 'lon ' to E or W, N and E for a value that is not
\* negative.
C18_EarthLocStr ==
    (fin.op = "str" /\ fout /= NoOutput /\ fin.cls = "earthLoc") =>
        /\ fout.exc = ""
        /\ StartsWith(fout.text, StrHead)
        /\ SplitLen(fout.text, ",") = 2
        /\ StartsWith(SplitPart(fout.text, ",", 2), <<" ">>)
        /\ Sexagesimal(StrFirst, <<"l", "a", "t", " ">>, IF fout.d1 >= 0 THEN <<"N">> ELSE <<"S">>, fout.d1)
        /\ Sexagesimal(StrSecond, <<"l", "o", "n", " ">>, IF fout.d2 >= 0 THEN <<"E">> ELSE <<"W">>, fout.d2)

\* Snowdon: 'earthLoc: lat 53:04:06.63 N, lon 4:04:34.57 W'
C18_Witness ==
    /\ fin.op = "str" /\ fout /= NoOutput /\ fin.cls = "earthLoc"
    /\ fin.v1 = 38209326 /\ fin.v2 = -2934914
    /\ fout.text = <<"e", "a", "r", "t", "h", "L", "o", "c", ":", " ", "l", "a", "t", " ", "5", "3", ":", "0", "4", ":", "0", "6", ".", "6", "3", " ", "N", ",", " ", "l", "o", "n", " ", "4", ":", "0", "4", ":", "3", "4", ".", "5", "7", " ", "W">>

\* ------------------------------------------------------------------------
\* Watchers
\* ------------------------------------------------------------------------

\* A dict of watchers is None or, in <<>>, the sequence of its items
\* [wk, wf] in the order they were put in.  The callbacks: "plain" returns,
\* "stopself" calls o.stopWatch(wk, itself).  w = [rw, cw, wcounter] are the
\* fields _readWatchers, _changeWatchers and _wcounter.
Callbacks == {"plain", "stopself"}

\* d[k] = wf of setWatch, k being a new key
DictPut(d, k, wf) ==
    IF d = None THEN Some(<<[wk |-> k, wf |-> wf]>>)
    ELSE Some(Append(d[1], [wk |-> k, wf |-> wf]))

\* d.get(k, None) == wf for a dict d that is not None
DictHas(d, k, wf) == \E i \in DOMAIN d[1] : d[1][i] = [wk |-> k, wf |-> wf]

\* d.pop(k, None)
DictPop(d, k) == Some(SelectSeq(d[1], LAMBDA e : e.wk /= k))

\* setWatch(wf, onchange, onread), which returns the new _wcounter
setWatch(w, wf, onchange, onread) ==
    [wcounter |-> w.wcounter + 1,
     cw |-> IF onchange THEN DictPut(w.cw, w.wcounter + 1, wf) ELSE w.cw,
     rw |-> IF onread THEN DictPut(w.rw, w.wcounter + 1, wf) ELSE w.rw]

\* stopWatch(wk, wf): [exc, w]
stopWatch(w, wk, wf) ==
    IF ~ ((w.cw /= None /\ DictHas(w.cw, wk, wf)) \/ (w.rw /= None /\ DictHas(w.rw, wk, wf)))
    THEN [exc |-> "AssertionError", w |-> w]
    ELSE [exc |-> "",
          w |-> [wcounter |-> w.wcounter,
                 cw |-> IF w.cw /= None THEN DictPop(w.cw, wk) ELSE None,
                 rw |-> IF w.rw /= None THEN DictPop(w.rw, wk) ELSE None]]

\* the dict a walk goes over: "r" for _readWatchers, "c" for _changeWatchers
Walked(w, which) == IF which = "r" THEN w.rw ELSE w.cw

\* what the callback of the item e does to the object
Called(w, e) ==
    IF e.wf = "stopself" THEN stopWatch(w, e.wk, e.wf) ELSE [exc |-> "", w |-> w]

\* for wk, wf in d.items(): wf(wk, self), from the i-th item on, n being the
\* size of d when the loop began: the iterator raises RuntimeError
\* (dictionary changed size during iteration) when it is asked for an item
\* of a dict of another size, the end of the loop included.  calls collects
\* <<which, wk>> of the callbacks called.  [exc, w, calls]
RECURSIVE WalkFrom(_, _, _, _, _)
WalkFrom(w, which, i, n, calls) ==
    IF Len(Walked(w, which)[1]) /= n THEN [exc |-> "RuntimeError", w |-> w, calls |-> calls]
    ELSE IF i > n THEN [exc |-> "", w |-> w, calls |-> calls]
    ELSE Only({ IF after.exc /= ""
                THEN [exc |-> after.exc, w |-> after.w,
                      calls |-> Append(calls, <<which, Walked(w, which)[1][i].wk>>)]
                ELSE WalkFrom(after.w, which, i + 1, n,
                              Append(calls, <<which, Walked(w, which)[1][i].wk>>))
                : after \in {Called(w, Walked(w, which)[1][i])} })

\* _notifyAccess ("r") and _notifyChange ("c") of an object with watchers
Notify(w, which, calls) ==
    IF Walked(w, which) = None THEN [exc |-> "", w |-> w, calls |-> calls]
    ELSE WalkFrom(w, which, 1, Len(Walked(w, which)[1]), calls)

\* the bound on the watchers ever set
MaxWatchers == 3

\* <<which, wk>> of the plain callbacks in the dict which
PlainIn(w, which) ==
    IF Walked(w, which) = None THEN {}
    ELSE {<<which, Walked(w, which)[1][i].wk>>
            : i \in {j \in DOMAIN Walked(w, which)[1] : Walked(w, which)[1][j].wf = "plain"}}

\* fout holds the object: its fields rw, cw, wcounter, and of the last
\* operation its name op, what it raised, the callbacks it called and the
\* plain callbacks that were due
WatchInit ==
    /\ ObjInit /\ fin = [op |-> "watch"]
    /\ fout = [exc |-> "", op |-> "init", rw |-> None, cw |-> None, wcounter |-> 0,
               calls |-> <<>>, due |-> {}]

Watching == fin.op = "watch"

WatchState == [rw |-> fout.rw, cw |-> fout.cw, wcounter |-> fout.wcounter]

\* the state after an operation named op that gave res = [exc, w, calls]
WatchAfter(op, res, due) ==
    [exc |-> res.exc, op |-> op, rw |-> res.w.rw, cw |-> res.w.cw,
     wcounter |-> res.w.wcounter, calls |-> res.calls, due |-> due]

\* x.setWatch(wf, onchange, onread)
SetWatch ==
    /\ Watching /\ fout.wcounter < MaxWatchers
    /\ \E wf \in Callbacks, onchange \in BOOLEAN, onread \in BOOLEAN :
            fout' = WatchAfter("setWatch",
                        [exc |-> "", w |-> setWatch(WatchState, wf, onchange, onread),
                         calls |-> <<>>], {})
    /\ UNCHANGED fin
    /\ UNCHANGED objvars

\* x.stopWatch(wk, wf) from outside a callback
StopWatch ==
    /\ Watching
    /\ \E wk \in 1..MaxWatchers, wf \in Callbacks :
       \E res \in {stopWatch(WatchState, wk, wf)} :
            fout' = WatchAfter("stopWatch", [exc |-> res.exc, w |-> res.w, calls |-> <<>>], {})
    /\ UNCHANGED fin
    /\ UNCHANGED objvars

\* x.deg: the getter calls _notifyAccess and returns the value
WatchedRead ==
    /\ Watching
    /\ \E res \in {Notify(WatchState, "r", <<>>)} :
            fout' = WatchAfter("read", res, PlainIn(WatchState, "r"))
    /\ UNCHANGED fin
    /\ UNCHANGED objvars

\* x.deg = a value that is not the one held: the setter reads self.deg,
\* which calls _notifyAccess, stores the value and calls _notifyChange
WatchedWrite ==
    /\ Watching
    /\ \E rd \in {Notify(WatchState, "r", <<>>)} :
       \E res \in {IF rd.exc /= "" THEN rd ELSE Notify(rd.w, "c", rd.calls)} :
            fout' = WatchAfter("write", res,
                        PlainIn(WatchState, "r") \cup PlainIn(WatchState, "c"))
    /\ UNCHANGED fin
    /\ UNCHANGED objvars

WatchNext == SetWatch \/ StopWatch \/ WatchedRead \/ WatchedWrite

WatchSpec == WatchInit /\ [][WatchNext]_vars

\* how often c is in calls
Times(calls, c) == Cardinality({i \in DOMAIN calls : calls[i] = c})

\* C19: a read or a write returns without raising, whichever callbacks stop
\* their own watch while they are notified, and every plain callback that
\* was registered when it began is called exactly once in each walk it was
\* due in.
C19_SelfStopDuringWalk ==
    (Watching /\ fout.op \in {"read", "write"}) =>
        /\ fout.exc = ""
        /\ \A c \in fout.due : Times(fout.calls, c) = 1

\* ------------------------------------------------------------------------
\* The sexagesimal fields of the multi number mode
\* ------------------------------------------------------------------------

\* a 3600th of a degree and a hundredth of it, on the grid
Second == One \div 3600

Hundredth == Second \div 100

\* the degrees an object is made of before it is decomposed: whole degrees,
\* minutes and seconds, with 0, 0.005, 0.5, 0.99, 0.995 and 0.999... seconds
\* on top
DecompWholes == {0, 10 * One, 10 * One + 59 * (One \div 60), 44 * One + 59 * (One \div 60) + 59 * Second}

DecompFracs == {0, 1, Second \div 2, Second - 2, Second - 1}

DecompValues == {s * (w + f) : s \in {-1, 1}, w \in DecompWholes, f \in DecompFracs}

DecompInputs ==
    {[op |-> "decomp", k |-> k, v |-> v, src |-> "d"]
        : k \in Kinds, v \in DecompValues}

DecompInit == ObjInit /\ fin \in DecompInputs /\ fout = NoOutput

\* x = K(v); format(x, 'dx;...'): sval and the fields of lines 319-332
Decompose ==
    /\ fin.op = "decomp" /\ fout = NoOutput
    /\ \E x \in {init(fin.k, FloatArg(fin.v), "d")} :
       \E sv \in {ValueIn(x.o, fin.src)} :
       \E p \in {formparms(fin.k, sv)} :
            fout' = [sval |-> sv, abs |-> p.abs, min |-> p.min, sec |-> p.sec,
                     hund |-> p.hund, text |-> defaultMultiFormat(fin.k, p)]
    /\ UNCHANGED fin
    /\ UNCHANGED objvars

DecompNext == Decompose

DecompSpec == DecompInit /\ [][DecompNext]_vars

\* C21: in the multi number mode min and sec are in 0..59, hund is in 0..99,
\* and abs + min/60 + (sec + hund/100)/3600 is within half a hundredth of a
\* second of |value|: a fractional second that rounds up carries into sec.
C21_FieldsInRange ==
    (fin.op = "decomp" /\ fout /= NoOutput) =>
        /\ fout.min \in 0..59
        /\ fout.sec \in 0..59
        /\ fout.hund \in 0..99
        /\ 2 * Abs(fout.abs * One + fout.min * (One \div 60) + fout.sec * Second
                   + fout.hund * Hundredth - Abs(fout.sval)) <= Hundredth

\* ------------------------------------------------------------------------
\* stopWatch called again
\* ------------------------------------------------------------------------

\* stopWatch(wk, wf) as the interpreter runs it: with asserts the statement
\* of lines 186-187 is executed, without them (python -O) it is compiled
\* away and only the two pops of lines 188-191 are left.  [exc, w]
stopWatchRun(w, wk, wf, asserts) ==
    IF asserts THEN stopWatch(w, wk, wf)
    ELSE [exc |-> "",
          w |-> [wcounter |-> w.wcounter,
                 cw |-> IF w.cw /= None THEN DictPop(w.cw, wk) ELSE None,
                 rw |-> IF w.rw /= None THEN DictPop(w.rw, wk) ELSE None]]

\* the calls of setWatch an object has had: sequences of [wf, onchange, onread]
\* with at least one of the two flags set
AgainCalls ==
    {[wf |-> wf, onchange |-> c, onread |-> r]
        : wf \in Callbacks, c \in BOOLEAN, r \in {TRUE}}
    \cup {[wf |-> wf, onchange |-> TRUE, onread |-> FALSE] : wf \in {"plain"}}

AgainInputs ==
    {[op |-> "again", sets |-> s, wk |-> wk, asserts |-> a]
        : s \in UNION {[1..n -> AgainCalls] : n \in 1..MaxWatchers},
          wk \in 1..MaxWatchers, a \in BOOLEAN}

AgainInit == ObjInit /\ fin \in {i \in AgainInputs : i.wk <= Len(i.sets)} /\ fout = NoOutput

\* the object after the calls of setWatch of sets[1..n]
RECURSIVE AfterSets(_, _)
AfterSets(sets, n) ==
    IF n = 0 THEN [rw |-> None, cw |-> None, wcounter |-> 0]
    ELSE setWatch(AfterSets(sets, n - 1), sets[n].wf, sets[n].onchange, sets[n].onread)

\* x.stopWatch(wk, wf) for the watcher wk, which is registered
StopOnce ==
    /\ fin.op = "again" /\ fout = NoOutput
    /\ \E w \in {AfterSets(fin.sets, Len(fin.sets))} :
       \E res \in {stopWatchRun(w, fin.wk, fin.sets[fin.wk].wf, fin.asserts)} :
            fout' = [exc |-> res.exc, step |-> 1, w |-> res.w, before |-> w]
    /\ UNCHANGED fin
    /\ UNCHANGED objvars

\* x.stopWatch(wk, wf) once more, after the first call has returned
StopAgain ==
    /\ fin.op = "again" /\ fout /= NoOutput /\ fout.step = 1 /\ fout.exc = ""
    /\ \E res \in {stopWatchRun(fout.w, fin.wk, fin.sets[fin.wk].wf, fin.asserts)} :
            fout' = [exc |-> res.exc, step |-> 2, w |-> res.w, before |-> fout.w]
    /\ UNCHANGED fin
    /\ UNCHANGED objvars

AgainNext == StopOnce \/ StopAgain

AgainSpec == AgainInit /\ [][AgainNext]_vars

\* C22: stopWatch(key, callback) called again for a watcher that has been
\* removed raises nothing and leaves the watchers as they were.
C22_StopWatchIdempotent ==
    (fin.op = "again" /\ fout /= NoOutput /\ fout.step = 2) =>
        /\ fout.exc = ""
        /\ fout.w = fout.before

\* ------------------------------------------------------------------------
\* Writes that fail
\* ------------------------------------------------------------------------

\* C23: a set or a deg, rad or hour setter that is given a string and raises
\* has changed neither _dval nor _rval, the degrees read after it are those
\* held before it, and it has called no change watcher.
C23_FailedWriteKeepsValue ==
    (kind /= "" /\ call.name \in {"set"} \cup Setters /\ call.arg.ty = "str" /\ exc /= "") =>
        /\ dval = pre.d /\ rval = pre.r
        /\ DegNow = DegBefore
        /\ nchg = 0

\* set was given "1x", which does not parse, by an object that holds a value
C23_Witness ==
    /\ kind /= "" /\ call.name = "set" /\ call.arg = StrArg(<<"1", "x">>)
    /\ exc = "ValueError" /\ pre.d /= None /\ dval = pre.d /\ rval = pre.r

\* ------------------------------------------------------------------------
\* The objects of a derived pair and those of its sources
\* ------------------------------------------------------------------------

\* The degradval objects live in heap, a sequence of components [k, d, r]:
\* an object is its index.  The components of the j-th object of sources
\* are the objects 2j - 1 and 2j (NoComp where it has none).  A component
\* that is handed to the code as an object carries its index in the field
\* id; what a constructor returns carries none.
Ident(c, i) == [k |-> c.k, d |-> c.d, r |-> c.r, id |-> i]

HeapOf(sources) ==
    [i \in 1..(2 * Len(sources)) |->
        IF i % 2 = 1 THEN sources[(i + 1) \div 2].c1 ELSE sources[i \div 2].c2]

\* the sources tuple as the code sees it when the objects are as in heap
Held(heap, sources) ==
    [j \in DOMAIN sources |->
        [cls |-> sources[j].cls, c1 |-> Ident(heap[2 * j - 1], 2 * j - 1),
         c2 |-> Ident(heap[2 * j], 2 * j), degrees |-> sources[j].degrees]]

\* the object c after c.rad ("r") or c.deg ("d") was read: the property
\* fills the field that was missing
Filled(c, unit) ==
    Only({ [k |-> c.k, d |-> g.o.d, r |-> g.o.r]
           : g \in {IF unit = "r" THEN rad([d |-> c.d, r |-> c.r, nacc |-> 0, nchg |-> 0])
                    ELSE deg([d |-> c.d, r |-> c.r, nacc |-> 0, nchg |-> 0])} })

\* the index of the object the loop of setupfrom breaks after, Len(sources)
\* when it runs to its end
RECURSIVE LoopEnd(_, _, _, _)
LoopEnd(cls, sources, i, st) ==
    IF i >= Len(sources) THEN Len(sources)
    ELSE IF cls = "observedCoord" THEN
        Only({ IF ObservedBreak(s1, sources[i]) THEN i ELSE LoopEnd(cls, sources, i + 1, s1)
               : s1 \in {ObservedStep(st, sources[i])} })
    ELSE
        Only({ IF EquatorialBreak(s1, sources[i]) /= "" THEN i
               ELSE LoopEnd(cls, sources, i + 1, s1)
               : s1 \in {EquatorialStep(st, sources[i])} })

\* the components (1, 2) of anob whose .rad the loop of cls.setupfrom reads
LoopReads(cls, anob) ==
    IF anob.cls = (IF cls = "observedCoord" THEN "localEquatorial" ELSE "observedCoord")
    THEN {1, 2}
    ELSE IF IsLatVal(anob) \/ anob.cls = "earthLoc" THEN {1}
    ELSE {}

\* the objects whose .deg setupfromradec reads: inra.deg, and indec.deg in
\* the _cleanval of decVal(indec)
RadecReads(cls, held) ==
    IF cls /= "localEquatorial" THEN {}
    ELSE Only({ IF sc.found = "radec" THEN {sc.st.inra[1].id, sc.st.indec[1].id} ELSE {}
                : sc \in {EquatorialScan(held, 1,
                            [inalt |-> None, inaz |-> None, inlat |-> None,
                             inra |-> None, indec |-> None, insrtdeg |-> None])} })

\* the heap after cls.setupfrom(sources) has read its sources
AfterReads(heap, cls, sources) ==
    Only({ [i \in DOMAIN heap |->
                IF (i + 1) \div 2 <= last
                    /\ (2 - (i % 2)) \in LoopReads(cls, sources[(i + 1) \div 2])
                THEN Filled(heap[i], "r")
                ELSE IF i \in degs THEN Filled(heap[i], "d")
                ELSE heap[i]]
           : last \in {IF cls \in {"observedCoord", "localEquatorial"}
                       THEN LoopEnd(cls, sources, 1, [indec |-> None, inha |-> None,
                                inlat |-> None, inalt |-> None, inaz |-> None,
                                inra |-> None, insrtdeg |-> None])
                       ELSE 0},
             degs \in {RadecReads(cls, Held(heap, sources))} })

\* setattr(self, vn, c): the object c is, a new one when a constructor made it
Placed(heap, c) ==
    IF "id" \in DOMAIN c THEN [heap |-> heap, at |-> c.id]
    ELSE [heap |-> Append(heap, c), at |-> Len(heap) + 1]

\* cls(sources=sources) with the objects of heap: [exc, heap, v1, v2], v1 and
\* v2 being the objects the pair holds, 0 when no pair was made
deriveFrame(heap, cls, sources) ==
    Only({ IF f.exc /= "" THEN [exc |-> f.exc, heap |-> read, v1 |-> 0, v2 |-> 0]
           ELSE Only({ Only({ [exc |-> "", heap |-> p2.heap, v1 |-> p1.at, v2 |-> p2.at]
                              : p2 \in {Placed(p1.heap, f.c2[1])} })
                       : p1 \in {Placed(read, f.c1[1])} })
           : f \in {twoCoordsInit(cls, "sources" :> Held(heap, sources))},
             read \in {AfterReads(heap, cls, sources)} })

\* the sources tuples a pair is derived from
ShareLists ==
    {<<SrcEquatorial, SrcLat>>, <<SrcEarth, SrcEquatorial>>, <<SrcLat>>,
     <<SrcObserved, SrcLat>>, <<SrcEarth, SrcObserved>>,
     <<SrcRaDec, SrcSidereal(100 * One)>>, <<SrcSidereal(5 * One), SrcRaDecWest, SrcRaDec>>}

ShareInputs ==
    {[op |-> "share", cls |-> cls, sources |-> l]
        : cls \in {"observedCoord", "localEquatorial"}, l \in ShareLists}

\* the objects of the sources that are degradvals
SourceIds(heap, sources) == {i \in 1..(2 * Len(sources)) : heap[i].k /= ""}

\* the writes made to an object: x.deg = 5.0 and x.rad = 0.5
ShareWrites == {[u |-> "d", v |-> 5 * One], [u |-> "r", v |-> One \div 2]}

\* the bound on the writes made to the objects
MaxWrites == 2

\* fout holds the heap, the objects v1 and v2 of the derived pair (0 while
\* there is none), whether the derivation was run, the last operation and
\* what it raised, and as history the degrees every source object held
\* when it was made or last written (held) and those the derived objects
\* held when they were made or last written (got)
ShareInit ==
    /\ ObjInit /\ fin \in ShareInputs
    /\ fout = [op |-> "start", exc |-> "", heap |-> HeapOf(fin.sources), v1 |-> 0, v2 |-> 0,
               run |-> FALSE, writes |-> 0,
               held |-> [i \in SourceIds(HeapOf(fin.sources), fin.sources)
                            |-> CompDeg(HeapOf(fin.sources)[i])],
               got |-> <<>>]

\* x.deg = v or x.rad = v for the object x of heap: the object after it
WrittenTo(c, w) ==
    Only({ [k |-> c.k, d |-> res.o.d, r |-> res.o.r]
           : res \in {IF w.u = "d"
                      THEN degSetter(c.k, [d |-> c.d, r |-> c.r, nacc |-> 0, nchg |-> 0],
                                     FloatArg(w.v))
                      ELSE radSetter(c.k, [d |-> c.d, r |-> c.r, nacc |-> 0, nchg |-> 0],
                                     FloatArg(w.v))} })

\* pair = cls(sources=sources)
ShareDerive ==
    /\ fin.op = "share" /\ ~fout.run
    /\ \E f \in {deriveFrame(fout.heap, fin.cls, fin.sources)} :
            fout' = [fout EXCEPT !.op = "derive", !.exc = f.exc, !.heap = f.heap,
                                 !.v1 = f.v1, !.v2 = f.v2, !.run = TRUE,
                                 !.got = IF f.exc /= "" THEN <<>>
                                         ELSE <<CompDeg(f.heap[f.v1]), CompDeg(f.heap[f.v2])>>]
    /\ UNCHANGED fin
    /\ UNCHANGED objvars

\* a write to an object of the sources, before or after the derivation
WriteSource ==
    /\ fin.op = "share" /\ fout.writes < MaxWrites
    /\ \E i \in SourceIds(fout.heap, fin.sources), w \in ShareWrites :
       \E c \in {WrittenTo(fout.heap[i], w)} :
            fout' = [fout EXCEPT !.op = "source", !.exc = "", !.heap[i] = c,
                                 !.writes = @ + 1, !.held[i] = CompDeg(c)]
    /\ UNCHANGED fin
    /\ UNCHANGED objvars

\* a write to pair.v1 or pair.v2
WriteDerived ==
    /\ fin.op = "share" /\ fout.writes < MaxWrites /\ fout.v1 /= 0
    /\ \E n \in 1..2, w \in ShareWrites :
       \E c \in {WrittenTo(fout.heap[IF n = 1 THEN fout.v1 ELSE fout.v2], w)} :
            fout' = [fout EXCEPT !.op = "derived", !.exc = "",
                                 !.heap[IF n = 1 THEN fout.v1 ELSE fout.v2] = c,
                                 !.writes = @ + 1, !.got[n] = CompDeg(c)]
    /\ UNCHANGED fin
    /\ UNCHANGED objvars

ShareNext == ShareDerive \/ WriteSource \/ WriteDerived

ShareSpec == ShareInit /\ [][ShareNext]_vars

\* C24: the derivation leaves the degrees of every source object as they
\* were, the objects of the derived pair are none of the source objects,
\* and after any writes every source object holds the degrees it was last
\* given and every derived object those it was made with or last given.
C24_DerivedApartFromSources ==
    fin.op = "share" =>
        /\ \A i \in SourceIds(fout.heap, fin.sources) : CompDeg(fout.heap[i]) = fout.held[i]
        /\ fout.v1 /= 0 =>
            /\ fout.v1 \notin SourceIds(fout.heap, fin.sources)
            /\ fout.v2 \notin SourceIds(fout.heap, fin.sources)
            /\ CompDeg(fout.heap[fout.v1]) = fout.got[1]
            /\ CompDeg(fout.heap[fout.v2]) = fout.got[2]

\* a pair was derived from a raDec, then the declination of the raDec and
\* the hour angle of the pair were written
C24_Witness ==
    /\ fin.op = "share" /\ fin.sources = <<SrcRaDec, SrcSidereal(100 * One)>>
    /\ fout.v1 /= 0 /\ fout.writes = 2 /\ fout.op = "derived"
    /\ fout.held[2] = 5 * One /\ fout.got = <<5 * One, 20 * One>>
    /\ fout.heap[2].r = None /\ fout.heap[1].r = None

\* ------------------------------------------------------------------------
\* str() of a value handed to FromString
\* ------------------------------------------------------------------------

\* the class attribute defaultFormat: <<source, mode>>
defaultFormat(k) ==
    IF k \in {"raVal", "hourVal"} THEN <<"h", "x">>
    ELSE IF k = "decVal" THEN <<"d", "x">>
    ELSE <<"d", "s">>

\* '{:7.4f}'.format(v) for a value v of the grid that has at most four
\* decimals
Fmt74f(n) ==
    Only({ PadLeft((IF n < 0 THEN <<"-">> ELSE <<>>) \o IntStr(q \div 10000) \o <<".">>
                        \o PadLeft(IntStr(q % 10000), 4, "0"), 7, " ")
           : q \in {RoundHalfEven(Abs(n), One \div 10000)} })

\* line 316: the fields of the single number mode for the value sval
singleparms(k, sval) ==
    [abs |-> Abs(sval), signed |-> sval, schar |-> trailsign(k, sval), lab |-> defaultLabel(k)]

\* defaultSingleFormat.format(**p):
\*   latVal, lonVal  '{lab}{abs:7.4f} {schar}'
\*   the others      '{lab}{signed:7.4f}'
defaultSingleFormat(k, p) ==
    IF k \in {"latVal", "lonVal"} THEN p.lab \o Fmt74f(p.abs) \o <<" ">> \o p.schar
    ELSE p.lab \o Fmt74f(p.signed)

\* str(x) = format(x, ''): the default format of the class with the default
\* template of its mode
strOf(k, o) ==
    Only({ IF defaultFormat(k)[2] = "s" THEN defaultSingleFormat(k, singleparms(k, sval))
           ELSE defaultMultiFormat(k, formparms(k, sval))
           : sval \in {ValueIn(o, defaultFormat(k)[1])} })

\* the kinds FromString makes
BackKinds == {FromStringTags[i][2] : i \in DOMAIN FromStringTags}

\* the degrees a value is made of: -85.5, -45, -0.5, 0, 5, 10.5125, 15, 45,
\* 100.25 and 170
BackValues ==
    {-(85 * One + One \div 2), -(45 * One), -(One \div 2), 0, 5 * One,
     10 * One + (41 * One) \div 80, 15 * One, 45 * One, 100 * One + One \div 4, 170 * One}

BackInputs == {[op |-> "back", k |-> k, v |-> v] : k \in BackKinds, v \in BackValues}

BackInit == ObjInit /\ fin \in BackInputs /\ fout = NoOutput

\* x = K(v); y = FromString(str(x))
Back ==
    /\ fin.op = "back" /\ fout = NoOutput
    /\ \E x \in {init(fin.k, FloatArg(fin.v), "d")} :
       \E t \in {strOf(fin.k, x.o)} :
       \E y \in {FromString(t)} :
            fout' = [text |-> t, exc |-> y.exc, kind |-> y.kind,
                     held |-> ValueIn(x.o, "d"),
                     back |-> IF y.exc = "" THEN ValueIn(y.o, "d") ELSE 0]
    /\ UNCHANGED fin
    /\ UNCHANGED objvars

BackNext == Back

BackSpec == BackInit /\ [][BackNext]_vars

\* half a unit of the last decimal of '{:7.4f}', on the grid
BackTol == One \div 20000

\* C25: for a value x of a kind FromString makes, FromString(str(x)) returns
\* a value of the kind of x whose degrees are those of x to the precision of
\* the default format.
C25_StrBackThroughFromString ==
    (fin.op = "back" /\ fout /= NoOutput) =>
        /\ fout.exc = ""
        /\ fout.kind = fin.k
        /\ Abs(fout.back - fout.held) <= BackTol

\* ------------------------------------------------------------------------
\* The leading sign and the trailing letter of a string
\* ------------------------------------------------------------------------

\* the trailing letters, those of a latitude and those of a longitude
SignLetters ==
    {<<>>, <<"N">>, <<"S">>, <<"n">>, <<"s">>, <<"E">>, <<"W">>, <<"e">>, <<"w">>}

\* the numbers: 10, 10.5, 10:30:45 and 0:30:00
SignNums ==
    {[form |-> "float", txt |-> <<"1", "0">>, v |-> 10 * One],
     [form |-> "float", txt |-> <<"1", "0", ".", "5">>, v |-> 10 * One + One \div 2],
     [form |-> "dms", txt |-> <<"1", "0", ":", "3", "0", ":", "4", "5">>,
      v |-> 10 * One + (41 * One) \div 80],
     [form |-> "dms", txt |-> <<"0", ":", "3", "0", ":", "0", "0">>, v |-> One \div 2]}

\* the strings sign + number + letter, with and without a blank before the
\* letter
SignInputs ==
    {[op |-> "parse", k |-> k, u |-> "d", sgn |-> g, num |-> n, letter |-> l,
      s |-> g \o n.txt \o b \o l]
        : k \in Kinds, g \in SignParts, n \in SignNums, l \in SignLetters,
          b \in {<<>>, <<" ">>}}

SignInit == ObjInit /\ fin \in SignInputs /\ fout = NoOutput

SignSpec == SignInit /\ [][ParseNext]_vars

\* C26: the number a string stands for is its magnitude times the sign of
\* the trailing letter (+1 without a letter) times the sign of the leading
\* sign character, on the float path and on the d:m:s path; a string whose
\* letter is none of the kind raises ValueError.  For a latVal '-10S' is
\* 10 degrees and '-10N' is -10 degrees.
C26_SignProduct ==
    Parsed =>
        /\ LetterSign(fin.k, fin.letter) /= 0 =>
            /\ fout.exc = ""
            /\ fout.v = Constrain(fin.k,
                            (IF fin.sgn = <<"-">> THEN -1 ELSE 1)
                                * LetterSign(fin.k, fin.letter) * fin.num.v, "d")
        /\ LetterSign(fin.k, fin.letter) = 0 => fout.exc = "ValueError"
        /\ (fin.k = "latVal" /\ fin.s = <<"-", "1", "0", "S">>) => fout.v = 10 * One
        /\ (fin.k = "latVal" /\ fin.s = <<"-", "1", "0", "N">>) => fout.v = -(10 * One)

\* '-10:30:45S' was parsed as a latitude and gave +10.5125 degrees
C26_Witness ==
    /\ Parsed /\ fin.k = "latVal"
    /\ fin.s = <<"-", "1", "0", ":", "3", "0", ":", "4", "5", "S">>
    /\ fout.exc = "" /\ fout.v = 10 * One + (41 * One) \div 80

====
